---- MODULE Spec2Model ----
(***************************************************************************)
(* A model of the relevance-ranking training pipeline of CS228Project:     *)
(* train.py (clean_text, standardize_units, preprocess, main) and          *)
(* augmentation.py (augment_text).                                         *)
(*                                                                         *)
(* A text is a sequence of characters; a character is its code point, an   *)
(* integer of 0..1114111 (Str gives the text of an ASCII literal).         *)
(* A gain is kept in hundredths (1.0 is 100, 0.1 is 10, 0.01 is 1).        *)
(***************************************************************************)
EXTENDS Integers, Sequences, FiniteSets, TLC

VARIABLES
    pc,          \* position of main(): the next stage to run, or done / failed
    error,       \* the exception that ended the run ("" while none)
    args,        \* the parsed command line: locale, n_dev_queries, random_state
    pairs,       \* rows of the pairs CSV
    catalogue,   \* rows of the catalogue CSV
    df,          \* main's df: a record [cols, rows]
    qsplit,      \* [train, dev]: list_query_id_train, list_query_id_dev
    df_train,    \* table [cols, rows]
    df_dev,      \* table [cols, rows]
    train_samples, \* InputExamples given to the data loader
    evaluator,   \* the dev evaluator handed to fit
    artifacts,   \* directories written: subset of {"save", "tmp"}
    trace,       \* stages of main() that completed, in order
    aug,         \* the frame of augment_text: [pc, df, samples, df_n, picks, new, error]
    txt          \* the Text Normalizer under test: [stage, input, once, twice]

vars == <<pc, error, args, pairs, catalogue, df, qsplit, df_train, df_dev,
          train_samples, evaluator, artifacts, trace, aug, txt>>

----------------------------------------------------------------------------
(* Characters *)

\* The printable ASCII characters in the order of their code points: from
\* the space (32) to the underscore (95), and from a (97) to the tilde (126).
\* The grave accent (96) cannot be written in a string.
AsciiTo95 ==
    <<" ", "!", "\"", "#", "$", "%", "&", "'", "(", ")", "*", "+", ",", "-", ".", "/",
      "0", "1", "2", "3", "4", "5", "6", "7", "8", "9", ":", ";", "<", "=", ">", "?",
      "@", "A", "B", "C", "D", "E", "F", "G", "H", "I", "J", "K", "L", "M", "N", "O",
      "P", "Q", "R", "S", "T", "U", "V", "W", "X", "Y", "Z", "[", "\\", "]", "^", "_">>
AsciiFrom97 ==
    <<"a", "b", "c", "d", "e", "f", "g", "h", "i", "j", "k", "l", "m", "n", "o",
      "p", "q", "r", "s", "t", "u", "v", "w", "x", "y", "z", "{", "|", "}", "~">>

\* ord(ch) of an ASCII character written as a one-character string
Ord(ch) ==
    CASE ch = "\t" -> 9
      [] ch = "\n" -> 10
      [] ch = "\f" -> 12
      [] ch = "\r" -> 13
      [] \E i \in 1..Len(AsciiTo95) : AsciiTo95[i] = ch ->
            31 + (CHOOSE i \in 1..Len(AsciiTo95) : AsciiTo95[i] = ch)
      [] OTHER -> 96 + (CHOOSE i \in 1..Len(AsciiFrom97) : AsciiFrom97[i] = ch)

\* The text of a string literal, given by its ASCII characters
Str(chars) == [i \in 1..Len(chars) |-> Ord(chars[i])]

\* ' ', and the characters '<' and '>'
Space == Str(<<" ">>)
TagOpen == Ord("<")
TagClose == Ord(">")

\* A-Z and a-z
AsciiLetters == <<<<Ord("A"), Ord("Z")>>, <<Ord("a"), Ord("z")>>>>

\* [A-Za-z]
IsAsciiAlpha(c) ==
    \/ (AsciiLetters[1][1] <= c /\ c <= AsciiLetters[1][2])
    \/ (AsciiLetters[2][1] <= c /\ c <= AsciiLetters[2][2])

\* The place in a table of code point ranges <<first, last, ...>>, sorted
\* and disjoint, of the range that holds c; 0 when none does
RECURSIVE RangeIndex(_, _, _, _)
RangeIndex(table, c, lo, hi) ==
    IF lo > hi THEN 0
    ELSE LET mid == (lo + hi) \div 2
         IN IF c < table[mid][1] THEN RangeIndex(table, c, lo, mid - 1)
            ELSE IF c > table[mid][2] THEN RangeIndex(table, c, mid + 1, hi)
            ELSE mid

InRanges(c, table) == RangeIndex(table, c, 1, Len(table)) > 0

\* The character tables are those of the Unicode database of the
\* interpreter (Unicode 14.0), as ranges <<first, last>> of code points.

\* str.isspace()
SpaceRanges == <<
    <<9, 13>>, <<28, 32>>, <<133, 133>>, <<160, 160>>, <<5760, 5760>>, <<8192, 8202>>,
    <<8232, 8233>>, <<8239, 8239>>, <<8287, 8287>>, <<12288, 12288>>
>>

\* Whitespace as str.split() sees it
IsSpace(c) == InRanges(c, SpaceRanges)

\* str.isalnum(), and the underscore (95)
WordRanges == <<
    <<48, 57>>, <<65, 90>>, <<95, 95>>, <<97, 122>>, <<170, 170>>, <<178, 179>>,
    <<181, 181>>, <<185, 186>>, <<188, 190>>, <<192, 214>>, <<216, 246>>, <<248, 705>>,
    <<710, 721>>, <<736, 740>>, <<748, 748>>, <<750, 750>>, <<880, 884>>, <<886, 887>>,
    <<890, 893>>, <<895, 895>>, <<902, 902>>, <<904, 906>>, <<908, 908>>, <<910, 929>>,
    <<931, 1013>>, <<1015, 1153>>, <<1162, 1327>>, <<1329, 1366>>, <<1369, 1369>>, <<1376, 1416>>,
    <<1488, 1514>>, <<1519, 1522>>, <<1568, 1610>>, <<1632, 1641>>, <<1646, 1647>>, <<1649, 1747>>,
    <<1749, 1749>>, <<1765, 1766>>, <<1774, 1788>>, <<1791, 1791>>, <<1808, 1808>>, <<1810, 1839>>,
    <<1869, 1957>>, <<1969, 1969>>, <<1984, 2026>>, <<2036, 2037>>, <<2042, 2042>>, <<2048, 2069>>,
    <<2074, 2074>>, <<2084, 2084>>, <<2088, 2088>>, <<2112, 2136>>, <<2144, 2154>>, <<2160, 2183>>,
    <<2185, 2190>>, <<2208, 2249>>, <<2308, 2361>>, <<2365, 2365>>, <<2384, 2384>>, <<2392, 2401>>,
    <<2406, 2415>>, <<2417, 2432>>, <<2437, 2444>>, <<2447, 2448>>, <<2451, 2472>>, <<2474, 2480>>,
    <<2482, 2482>>, <<2486, 2489>>, <<2493, 2493>>, <<2510, 2510>>, <<2524, 2525>>, <<2527, 2529>>,
    <<2534, 2545>>, <<2548, 2553>>, <<2556, 2556>>, <<2565, 2570>>, <<2575, 2576>>, <<2579, 2600>>,
    <<2602, 2608>>, <<2610, 2611>>, <<2613, 2614>>, <<2616, 2617>>, <<2649, 2652>>, <<2654, 2654>>,
    <<2662, 2671>>, <<2674, 2676>>, <<2693, 2701>>, <<2703, 2705>>, <<2707, 2728>>, <<2730, 2736>>,
    <<2738, 2739>>, <<2741, 2745>>, <<2749, 2749>>, <<2768, 2768>>, <<2784, 2785>>, <<2790, 2799>>,
    <<2809, 2809>>, <<2821, 2828>>, <<2831, 2832>>, <<2835, 2856>>, <<2858, 2864>>, <<2866, 2867>>,
    <<2869, 2873>>, <<2877, 2877>>, <<2908, 2909>>, <<2911, 2913>>, <<2918, 2927>>, <<2929, 2935>>,
    <<2947, 2947>>, <<2949, 2954>>, <<2958, 2960>>, <<2962, 2965>>, <<2969, 2970>>, <<2972, 2972>>,
    <<2974, 2975>>, <<2979, 2980>>, <<2984, 2986>>, <<2990, 3001>>, <<3024, 3024>>, <<3046, 3058>>,
    <<3077, 3084>>, <<3086, 3088>>, <<3090, 3112>>, <<3114, 3129>>, <<3133, 3133>>, <<3160, 3162>>,
    <<3165, 3165>>, <<3168, 3169>>, <<3174, 3183>>, <<3192, 3198>>, <<3200, 3200>>, <<3205, 3212>>,
    <<3214, 3216>>, <<3218, 3240>>, <<3242, 3251>>, <<3253, 3257>>, <<3261, 3261>>, <<3293, 3294>>,
    <<3296, 3297>>, <<3302, 3311>>, <<3313, 3314>>, <<3332, 3340>>, <<3342, 3344>>, <<3346, 3386>>,
    <<3389, 3389>>, <<3406, 3406>>, <<3412, 3414>>, <<3416, 3425>>, <<3430, 3448>>, <<3450, 3455>>,
    <<3461, 3478>>, <<3482, 3505>>, <<3507, 3515>>, <<3517, 3517>>, <<3520, 3526>>, <<3558, 3567>>,
    <<3585, 3632>>, <<3634, 3635>>, <<3648, 3654>>, <<3664, 3673>>, <<3713, 3714>>, <<3716, 3716>>,
    <<3718, 3722>>, <<3724, 3747>>, <<3749, 3749>>, <<3751, 3760>>, <<3762, 3763>>, <<3773, 3773>>,
    <<3776, 3780>>, <<3782, 3782>>, <<3792, 3801>>, <<3804, 3807>>, <<3840, 3840>>, <<3872, 3891>>,
    <<3904, 3911>>, <<3913, 3948>>, <<3976, 3980>>, <<4096, 4138>>, <<4159, 4169>>, <<4176, 4181>>,
    <<4186, 4189>>, <<4193, 4193>>, <<4197, 4198>>, <<4206, 4208>>, <<4213, 4225>>, <<4238, 4238>>,
    <<4240, 4249>>, <<4256, 4293>>, <<4295, 4295>>, <<4301, 4301>>, <<4304, 4346>>, <<4348, 4680>>,
    <<4682, 4685>>, <<4688, 4694>>, <<4696, 4696>>, <<4698, 4701>>, <<4704, 4744>>, <<4746, 4749>>,
    <<4752, 4784>>, <<4786, 4789>>, <<4792, 4798>>, <<4800, 4800>>, <<4802, 4805>>, <<4808, 4822>>,
    <<4824, 4880>>, <<4882, 4885>>, <<4888, 4954>>, <<4969, 4988>>, <<4992, 5007>>, <<5024, 5109>>,
    <<5112, 5117>>, <<5121, 5740>>, <<5743, 5759>>, <<5761, 5786>>, <<5792, 5866>>, <<5870, 5880>>,
    <<5888, 5905>>, <<5919, 5937>>, <<5952, 5969>>, <<5984, 5996>>, <<5998, 6000>>, <<6016, 6067>>,
    <<6103, 6103>>, <<6108, 6108>>, <<6112, 6121>>, <<6128, 6137>>, <<6160, 6169>>, <<6176, 6264>>,
    <<6272, 6276>>, <<6279, 6312>>, <<6314, 6314>>, <<6320, 6389>>, <<6400, 6430>>, <<6470, 6509>>,
    <<6512, 6516>>, <<6528, 6571>>, <<6576, 6601>>, <<6608, 6618>>, <<6656, 6678>>, <<6688, 6740>>,
    <<6784, 6793>>, <<6800, 6809>>, <<6823, 6823>>, <<6917, 6963>>, <<6981, 6988>>, <<6992, 7001>>,
    <<7043, 7072>>, <<7086, 7141>>, <<7168, 7203>>, <<7232, 7241>>, <<7245, 7293>>, <<7296, 7304>>,
    <<7312, 7354>>, <<7357, 7359>>, <<7401, 7404>>, <<7406, 7411>>, <<7413, 7414>>, <<7418, 7418>>,
    <<7424, 7615>>, <<7680, 7957>>, <<7960, 7965>>, <<7968, 8005>>, <<8008, 8013>>, <<8016, 8023>>,
    <<8025, 8025>>, <<8027, 8027>>, <<8029, 8029>>, <<8031, 8061>>, <<8064, 8116>>, <<8118, 8124>>,
    <<8126, 8126>>, <<8130, 8132>>, <<8134, 8140>>, <<8144, 8147>>, <<8150, 8155>>, <<8160, 8172>>,
    <<8178, 8180>>, <<8182, 8188>>, <<8304, 8305>>, <<8308, 8313>>, <<8319, 8329>>, <<8336, 8348>>,
    <<8450, 8450>>, <<8455, 8455>>, <<8458, 8467>>, <<8469, 8469>>, <<8473, 8477>>, <<8484, 8484>>,
    <<8486, 8486>>, <<8488, 8488>>, <<8490, 8493>>, <<8495, 8505>>, <<8508, 8511>>, <<8517, 8521>>,
    <<8526, 8526>>, <<8528, 8585>>, <<9312, 9371>>, <<9450, 9471>>, <<10102, 10131>>, <<11264, 11492>>,
    <<11499, 11502>>, <<11506, 11507>>, <<11517, 11517>>, <<11520, 11557>>, <<11559, 11559>>, <<11565, 11565>>,
    <<11568, 11623>>, <<11631, 11631>>, <<11648, 11670>>, <<11680, 11686>>, <<11688, 11694>>, <<11696, 11702>>,
    <<11704, 11710>>, <<11712, 11718>>, <<11720, 11726>>, <<11728, 11734>>, <<11736, 11742>>, <<11823, 11823>>,
    <<12293, 12295>>, <<12321, 12329>>, <<12337, 12341>>, <<12344, 12348>>, <<12353, 12438>>, <<12445, 12447>>,
    <<12449, 12538>>, <<12540, 12543>>, <<12549, 12591>>, <<12593, 12686>>, <<12690, 12693>>, <<12704, 12735>>,
    <<12784, 12799>>, <<12832, 12841>>, <<12872, 12879>>, <<12881, 12895>>, <<12928, 12937>>, <<12977, 12991>>,
    <<13312, 19903>>, <<19968, 42124>>, <<42192, 42237>>, <<42240, 42508>>, <<42512, 42539>>, <<42560, 42606>>,
    <<42623, 42653>>, <<42656, 42735>>, <<42775, 42783>>, <<42786, 42888>>, <<42891, 42954>>, <<42960, 42961>>,
    <<42963, 42963>>, <<42965, 42969>>, <<42994, 43009>>, <<43011, 43013>>, <<43015, 43018>>, <<43020, 43042>>,
    <<43056, 43061>>, <<43072, 43123>>, <<43138, 43187>>, <<43216, 43225>>, <<43250, 43255>>, <<43259, 43259>>,
    <<43261, 43262>>, <<43264, 43301>>, <<43312, 43334>>, <<43360, 43388>>, <<43396, 43442>>, <<43471, 43481>>,
    <<43488, 43492>>, <<43494, 43518>>, <<43520, 43560>>, <<43584, 43586>>, <<43588, 43595>>, <<43600, 43609>>,
    <<43616, 43638>>, <<43642, 43642>>, <<43646, 43695>>, <<43697, 43697>>, <<43701, 43702>>, <<43705, 43709>>,
    <<43712, 43712>>, <<43714, 43714>>, <<43739, 43741>>, <<43744, 43754>>, <<43762, 43764>>, <<43777, 43782>>,
    <<43785, 43790>>, <<43793, 43798>>, <<43808, 43814>>, <<43816, 43822>>, <<43824, 43866>>, <<43868, 43881>>,
    <<43888, 44002>>, <<44016, 44025>>, <<44032, 55203>>, <<55216, 55238>>, <<55243, 55291>>, <<63744, 64109>>,
    <<64112, 64217>>, <<64256, 64262>>, <<64275, 64279>>, <<64285, 64285>>, <<64287, 64296>>, <<64298, 64310>>,
    <<64312, 64316>>, <<64318, 64318>>, <<64320, 64321>>, <<64323, 64324>>, <<64326, 64433>>, <<64467, 64829>>,
    <<64848, 64911>>, <<64914, 64967>>, <<65008, 65019>>, <<65136, 65140>>, <<65142, 65276>>, <<65296, 65305>>,
    <<65313, 65338>>, <<65345, 65370>>, <<65382, 65470>>, <<65474, 65479>>, <<65482, 65487>>, <<65490, 65495>>,
    <<65498, 65500>>, <<65536, 65547>>, <<65549, 65574>>, <<65576, 65594>>, <<65596, 65597>>, <<65599, 65613>>,
    <<65616, 65629>>, <<65664, 65786>>, <<65799, 65843>>, <<65856, 65912>>, <<65930, 65931>>, <<66176, 66204>>,
    <<66208, 66256>>, <<66273, 66299>>, <<66304, 66339>>, <<66349, 66378>>, <<66384, 66421>>, <<66432, 66461>>,
    <<66464, 66499>>, <<66504, 66511>>, <<66513, 66517>>, <<66560, 66717>>, <<66720, 66729>>, <<66736, 66771>>,
    <<66776, 66811>>, <<66816, 66855>>, <<66864, 66915>>, <<66928, 66938>>, <<66940, 66954>>, <<66956, 66962>>,
    <<66964, 66965>>, <<66967, 66977>>, <<66979, 66993>>, <<66995, 67001>>, <<67003, 67004>>, <<67072, 67382>>,
    <<67392, 67413>>, <<67424, 67431>>, <<67456, 67461>>, <<67463, 67504>>, <<67506, 67514>>, <<67584, 67589>>,
    <<67592, 67592>>, <<67594, 67637>>, <<67639, 67640>>, <<67644, 67644>>, <<67647, 67669>>, <<67672, 67702>>,
    <<67705, 67742>>, <<67751, 67759>>, <<67808, 67826>>, <<67828, 67829>>, <<67835, 67867>>, <<67872, 67897>>,
    <<67968, 68023>>, <<68028, 68047>>, <<68050, 68096>>, <<68112, 68115>>, <<68117, 68119>>, <<68121, 68149>>,
    <<68160, 68168>>, <<68192, 68222>>, <<68224, 68255>>, <<68288, 68295>>, <<68297, 68324>>, <<68331, 68335>>,
    <<68352, 68405>>, <<68416, 68437>>, <<68440, 68466>>, <<68472, 68497>>, <<68521, 68527>>, <<68608, 68680>>,
    <<68736, 68786>>, <<68800, 68850>>, <<68858, 68899>>, <<68912, 68921>>, <<69216, 69246>>, <<69248, 69289>>,
    <<69296, 69297>>, <<69376, 69415>>, <<69424, 69445>>, <<69457, 69460>>, <<69488, 69505>>, <<69552, 69579>>,
    <<69600, 69622>>, <<69635, 69687>>, <<69714, 69743>>, <<69745, 69746>>, <<69749, 69749>>, <<69763, 69807>>,
    <<69840, 69864>>, <<69872, 69881>>, <<69891, 69926>>, <<69942, 69951>>, <<69956, 69956>>, <<69959, 69959>>,
    <<69968, 70002>>, <<70006, 70006>>, <<70019, 70066>>, <<70081, 70084>>, <<70096, 70106>>, <<70108, 70108>>,
    <<70113, 70132>>, <<70144, 70161>>, <<70163, 70187>>, <<70272, 70278>>, <<70280, 70280>>, <<70282, 70285>>,
    <<70287, 70301>>, <<70303, 70312>>, <<70320, 70366>>, <<70384, 70393>>, <<70405, 70412>>, <<70415, 70416>>,
    <<70419, 70440>>, <<70442, 70448>>, <<70450, 70451>>, <<70453, 70457>>, <<70461, 70461>>, <<70480, 70480>>,
    <<70493, 70497>>, <<70656, 70708>>, <<70727, 70730>>, <<70736, 70745>>, <<70751, 70753>>, <<70784, 70831>>,
    <<70852, 70853>>, <<70855, 70855>>, <<70864, 70873>>, <<71040, 71086>>, <<71128, 71131>>, <<71168, 71215>>,
    <<71236, 71236>>, <<71248, 71257>>, <<71296, 71338>>, <<71352, 71352>>, <<71360, 71369>>, <<71424, 71450>>,
    <<71472, 71483>>, <<71488, 71494>>, <<71680, 71723>>, <<71840, 71922>>, <<71935, 71942>>, <<71945, 71945>>,
    <<71948, 71955>>, <<71957, 71958>>, <<71960, 71983>>, <<71999, 71999>>, <<72001, 72001>>, <<72016, 72025>>,
    <<72096, 72103>>, <<72106, 72144>>, <<72161, 72161>>, <<72163, 72163>>, <<72192, 72192>>, <<72203, 72242>>,
    <<72250, 72250>>, <<72272, 72272>>, <<72284, 72329>>, <<72349, 72349>>, <<72368, 72440>>, <<72704, 72712>>,
    <<72714, 72750>>, <<72768, 72768>>, <<72784, 72812>>, <<72818, 72847>>, <<72960, 72966>>, <<72968, 72969>>,
    <<72971, 73008>>, <<73030, 73030>>, <<73040, 73049>>, <<73056, 73061>>, <<73063, 73064>>, <<73066, 73097>>,
    <<73112, 73112>>, <<73120, 73129>>, <<73440, 73458>>, <<73648, 73648>>, <<73664, 73684>>, <<73728, 74649>>,
    <<74752, 74862>>, <<74880, 75075>>, <<77712, 77808>>, <<77824, 78894>>, <<82944, 83526>>, <<92160, 92728>>,
    <<92736, 92766>>, <<92768, 92777>>, <<92784, 92862>>, <<92864, 92873>>, <<92880, 92909>>, <<92928, 92975>>,
    <<92992, 92995>>, <<93008, 93017>>, <<93019, 93025>>, <<93027, 93047>>, <<93053, 93071>>, <<93760, 93846>>,
    <<93952, 94026>>, <<94032, 94032>>, <<94099, 94111>>, <<94176, 94177>>, <<94179, 94179>>, <<94208, 100343>>,
    <<100352, 101589>>, <<101632, 101640>>, <<110576, 110579>>, <<110581, 110587>>, <<110589, 110590>>, <<110592, 110882>>,
    <<110928, 110930>>, <<110948, 110951>>, <<110960, 111355>>, <<113664, 113770>>, <<113776, 113788>>, <<113792, 113800>>,
    <<113808, 113817>>, <<119520, 119539>>, <<119648, 119672>>, <<119808, 119892>>, <<119894, 119964>>, <<119966, 119967>>,
    <<119970, 119970>>, <<119973, 119974>>, <<119977, 119980>>, <<119982, 119993>>, <<119995, 119995>>, <<119997, 120003>>,
    <<120005, 120069>>, <<120071, 120074>>, <<120077, 120084>>, <<120086, 120092>>, <<120094, 120121>>, <<120123, 120126>>,
    <<120128, 120132>>, <<120134, 120134>>, <<120138, 120144>>, <<120146, 120485>>, <<120488, 120512>>, <<120514, 120538>>,
    <<120540, 120570>>, <<120572, 120596>>, <<120598, 120628>>, <<120630, 120654>>, <<120656, 120686>>, <<120688, 120712>>,
    <<120714, 120744>>, <<120746, 120770>>, <<120772, 120779>>, <<120782, 120831>>, <<122624, 122654>>, <<123136, 123180>>,
    <<123191, 123197>>, <<123200, 123209>>, <<123214, 123214>>, <<123536, 123565>>, <<123584, 123627>>, <<123632, 123641>>,
    <<124896, 124902>>, <<124904, 124907>>, <<124909, 124910>>, <<124912, 124926>>, <<124928, 125124>>, <<125127, 125135>>,
    <<125184, 125251>>, <<125259, 125259>>, <<125264, 125273>>, <<126065, 126123>>, <<126125, 126127>>, <<126129, 126132>>,
    <<126209, 126253>>, <<126255, 126269>>, <<126464, 126467>>, <<126469, 126495>>, <<126497, 126498>>, <<126500, 126500>>,
    <<126503, 126503>>, <<126505, 126514>>, <<126516, 126519>>, <<126521, 126521>>, <<126523, 126523>>, <<126530, 126530>>,
    <<126535, 126535>>, <<126537, 126537>>, <<126539, 126539>>, <<126541, 126543>>, <<126545, 126546>>, <<126548, 126548>>,
    <<126551, 126551>>, <<126553, 126553>>, <<126555, 126555>>, <<126557, 126557>>, <<126559, 126559>>, <<126561, 126562>>,
    <<126564, 126564>>, <<126567, 126570>>, <<126572, 126578>>, <<126580, 126583>>, <<126585, 126588>>, <<126590, 126590>>,
    <<126592, 126601>>, <<126603, 126619>>, <<126625, 126627>>, <<126629, 126633>>, <<126635, 126651>>, <<127232, 127244>>,
    <<130032, 130041>>, <<131072, 173791>>, <<173824, 177976>>, <<177984, 178205>>, <<178208, 183969>>, <<183984, 191456>>,
    <<194560, 195101>>, <<196608, 201546>>
>>

\* \w of a str pattern: alphanumeric in Unicode, or the underscore
IsWordChar(c) == InRanges(c, WordRanges)

\* The characters str.lower() changes into one other character:
\* <<first, last, shift, step>> stands for the code points first,
\* first + step, ..., last, each lowered to itself + shift
LowerRuns == <<
    <<65, 90, 32, 1>>, <<192, 214, 32, 1>>, <<216, 222, 32, 1>>, <<256, 302, 1, 2>>, <<306, 310, 1, 2>>,
    <<313, 327, 1, 2>>, <<330, 374, 1, 2>>, <<376, 376, -121, 1>>, <<377, 381, 1, 2>>, <<385, 385, 210, 1>>,
    <<386, 388, 1, 2>>, <<390, 390, 206, 1>>, <<391, 391, 1, 1>>, <<393, 394, 205, 1>>, <<395, 395, 1, 1>>,
    <<398, 398, 79, 1>>, <<399, 399, 202, 1>>, <<400, 400, 203, 1>>, <<401, 401, 1, 1>>, <<403, 403, 205, 1>>,
    <<404, 404, 207, 1>>, <<406, 406, 211, 1>>, <<407, 407, 209, 1>>, <<408, 408, 1, 1>>, <<412, 412, 211, 1>>,
    <<413, 413, 213, 1>>, <<415, 415, 214, 1>>, <<416, 420, 1, 2>>, <<422, 422, 218, 1>>, <<423, 423, 1, 1>>,
    <<425, 425, 218, 1>>, <<428, 428, 1, 1>>, <<430, 430, 218, 1>>, <<431, 431, 1, 1>>, <<433, 434, 217, 1>>,
    <<435, 437, 1, 2>>, <<439, 439, 219, 1>>, <<440, 440, 1, 1>>, <<444, 444, 1, 1>>, <<452, 452, 2, 1>>,
    <<453, 453, 1, 1>>, <<455, 455, 2, 1>>, <<456, 456, 1, 1>>, <<458, 458, 2, 1>>, <<459, 475, 1, 2>>,
    <<478, 494, 1, 2>>, <<497, 497, 2, 1>>, <<498, 500, 1, 2>>, <<502, 502, -97, 1>>, <<503, 503, -56, 1>>,
    <<504, 542, 1, 2>>, <<544, 544, -130, 1>>, <<546, 562, 1, 2>>, <<570, 570, 10795, 1>>, <<571, 571, 1, 1>>,
    <<573, 573, -163, 1>>, <<574, 574, 10792, 1>>, <<577, 577, 1, 1>>, <<579, 579, -195, 1>>, <<580, 580, 69, 1>>,
    <<581, 581, 71, 1>>, <<582, 590, 1, 2>>, <<880, 882, 1, 2>>, <<886, 886, 1, 1>>, <<895, 895, 116, 1>>,
    <<902, 902, 38, 1>>, <<904, 906, 37, 1>>, <<908, 908, 64, 1>>, <<910, 911, 63, 1>>, <<913, 929, 32, 1>>,
    <<931, 939, 32, 1>>, <<975, 975, 8, 1>>, <<984, 1006, 1, 2>>, <<1012, 1012, -60, 1>>, <<1015, 1015, 1, 1>>,
    <<1017, 1017, -7, 1>>, <<1018, 1018, 1, 1>>, <<1021, 1023, -130, 1>>, <<1024, 1039, 80, 1>>, <<1040, 1071, 32, 1>>,
    <<1120, 1152, 1, 2>>, <<1162, 1214, 1, 2>>, <<1216, 1216, 15, 1>>, <<1217, 1229, 1, 2>>, <<1232, 1326, 1, 2>>,
    <<1329, 1366, 48, 1>>, <<4256, 4293, 7264, 1>>, <<4295, 4295, 7264, 1>>, <<4301, 4301, 7264, 1>>, <<5024, 5103, 38864, 1>>,
    <<5104, 5109, 8, 1>>, <<7312, 7354, -3008, 1>>, <<7357, 7359, -3008, 1>>, <<7680, 7828, 1, 2>>, <<7838, 7838, -7615, 1>>,
    <<7840, 7934, 1, 2>>, <<7944, 7951, -8, 1>>, <<7960, 7965, -8, 1>>, <<7976, 7983, -8, 1>>, <<7992, 7999, -8, 1>>,
    <<8008, 8013, -8, 1>>, <<8025, 8031, -8, 2>>, <<8040, 8047, -8, 1>>, <<8072, 8079, -8, 1>>, <<8088, 8095, -8, 1>>,
    <<8104, 8111, -8, 1>>, <<8120, 8121, -8, 1>>, <<8122, 8123, -74, 1>>, <<8124, 8124, -9, 1>>, <<8136, 8139, -86, 1>>,
    <<8140, 8140, -9, 1>>, <<8152, 8153, -8, 1>>, <<8154, 8155, -100, 1>>, <<8168, 8169, -8, 1>>, <<8170, 8171, -112, 1>>,
    <<8172, 8172, -7, 1>>, <<8184, 8185, -128, 1>>, <<8186, 8187, -126, 1>>, <<8188, 8188, -9, 1>>, <<8486, 8486, -7517, 1>>,
    <<8490, 8490, -8383, 1>>, <<8491, 8491, -8262, 1>>, <<8498, 8498, 28, 1>>, <<8544, 8559, 16, 1>>, <<8579, 8579, 1, 1>>,
    <<9398, 9423, 26, 1>>, <<11264, 11311, 48, 1>>, <<11360, 11360, 1, 1>>, <<11362, 11362, -10743, 1>>, <<11363, 11363, -3814, 1>>,
    <<11364, 11364, -10727, 1>>, <<11367, 11371, 1, 2>>, <<11373, 11373, -10780, 1>>, <<11374, 11374, -10749, 1>>, <<11375, 11375, -10783, 1>>,
    <<11376, 11376, -10782, 1>>, <<11378, 11378, 1, 1>>, <<11381, 11381, 1, 1>>, <<11390, 11391, -10815, 1>>, <<11392, 11490, 1, 2>>,
    <<11499, 11501, 1, 2>>, <<11506, 11506, 1, 1>>, <<42560, 42604, 1, 2>>, <<42624, 42650, 1, 2>>, <<42786, 42798, 1, 2>>,
    <<42802, 42862, 1, 2>>, <<42873, 42875, 1, 2>>, <<42877, 42877, -35332, 1>>, <<42878, 42886, 1, 2>>, <<42891, 42891, 1, 1>>,
    <<42893, 42893, -42280, 1>>, <<42896, 42898, 1, 2>>, <<42902, 42920, 1, 2>>, <<42922, 42922, -42308, 1>>, <<42923, 42923, -42319, 1>>,
    <<42924, 42924, -42315, 1>>, <<42925, 42925, -42305, 1>>, <<42926, 42926, -42308, 1>>, <<42928, 42928, -42258, 1>>, <<42929, 42929, -42282, 1>>,
    <<42930, 42930, -42261, 1>>, <<42931, 42931, 928, 1>>, <<42932, 42946, 1, 2>>, <<42948, 42948, -48, 1>>, <<42949, 42949, -42307, 1>>,
    <<42950, 42950, -35384, 1>>, <<42951, 42953, 1, 2>>, <<42960, 42960, 1, 1>>, <<42966, 42968, 1, 2>>, <<42997, 42997, 1, 1>>,
    <<65313, 65338, 32, 1>>, <<66560, 66599, 40, 1>>, <<66736, 66771, 40, 1>>, <<66928, 66938, 39, 1>>, <<66940, 66954, 39, 1>>,
    <<66956, 66962, 39, 1>>, <<66964, 66965, 39, 1>>, <<68736, 68786, 64, 1>>, <<71840, 71871, 32, 1>>, <<93760, 93791, 32, 1>>,
    <<125184, 125217, 34, 1>>
>>

\* Case-ignorable characters
CaseIgnorableRanges == <<
    <<39, 39>>, <<46, 46>>, <<58, 58>>, <<94, 94>>, <<96, 96>>, <<168, 168>>,
    <<173, 173>>, <<175, 175>>, <<180, 180>>, <<183, 184>>, <<688, 879>>, <<884, 885>>,
    <<890, 890>>, <<900, 901>>, <<903, 903>>, <<1155, 1161>>, <<1369, 1369>>, <<1375, 1375>>,
    <<1425, 1469>>, <<1471, 1471>>, <<1473, 1474>>, <<1476, 1477>>, <<1479, 1479>>, <<1524, 1524>>,
    <<1536, 1541>>, <<1552, 1562>>, <<1564, 1564>>, <<1600, 1600>>, <<1611, 1631>>, <<1648, 1648>>,
    <<1750, 1757>>, <<1759, 1768>>, <<1770, 1773>>, <<1807, 1807>>, <<1809, 1809>>, <<1840, 1866>>,
    <<1958, 1968>>, <<2027, 2037>>, <<2042, 2042>>, <<2045, 2045>>, <<2070, 2093>>, <<2137, 2139>>,
    <<2184, 2184>>, <<2192, 2193>>, <<2200, 2207>>, <<2249, 2306>>, <<2362, 2362>>, <<2364, 2364>>,
    <<2369, 2376>>, <<2381, 2381>>, <<2385, 2391>>, <<2402, 2403>>, <<2417, 2417>>, <<2433, 2433>>,
    <<2492, 2492>>, <<2497, 2500>>, <<2509, 2509>>, <<2530, 2531>>, <<2558, 2558>>, <<2561, 2562>>,
    <<2620, 2620>>, <<2625, 2626>>, <<2631, 2632>>, <<2635, 2637>>, <<2641, 2641>>, <<2672, 2673>>,
    <<2677, 2677>>, <<2689, 2690>>, <<2748, 2748>>, <<2753, 2757>>, <<2759, 2760>>, <<2765, 2765>>,
    <<2786, 2787>>, <<2810, 2815>>, <<2817, 2817>>, <<2876, 2876>>, <<2879, 2879>>, <<2881, 2884>>,
    <<2893, 2893>>, <<2901, 2902>>, <<2914, 2915>>, <<2946, 2946>>, <<3008, 3008>>, <<3021, 3021>>,
    <<3072, 3072>>, <<3076, 3076>>, <<3132, 3132>>, <<3134, 3136>>, <<3142, 3144>>, <<3146, 3149>>,
    <<3157, 3158>>, <<3170, 3171>>, <<3201, 3201>>, <<3260, 3260>>, <<3263, 3263>>, <<3270, 3270>>,
    <<3276, 3277>>, <<3298, 3299>>, <<3328, 3329>>, <<3387, 3388>>, <<3393, 3396>>, <<3405, 3405>>,
    <<3426, 3427>>, <<3457, 3457>>, <<3530, 3530>>, <<3538, 3540>>, <<3542, 3542>>, <<3633, 3633>>,
    <<3636, 3642>>, <<3654, 3662>>, <<3761, 3761>>, <<3764, 3772>>, <<3782, 3782>>, <<3784, 3789>>,
    <<3864, 3865>>, <<3893, 3893>>, <<3895, 3895>>, <<3897, 3897>>, <<3953, 3966>>, <<3968, 3972>>,
    <<3974, 3975>>, <<3981, 3991>>, <<3993, 4028>>, <<4038, 4038>>, <<4141, 4144>>, <<4146, 4151>>,
    <<4153, 4154>>, <<4157, 4158>>, <<4184, 4185>>, <<4190, 4192>>, <<4209, 4212>>, <<4226, 4226>>,
    <<4229, 4230>>, <<4237, 4237>>, <<4253, 4253>>, <<4348, 4348>>, <<4957, 4959>>, <<5906, 5908>>,
    <<5938, 5939>>, <<5970, 5971>>, <<6002, 6003>>, <<6068, 6069>>, <<6071, 6077>>, <<6086, 6086>>,
    <<6089, 6099>>, <<6103, 6103>>, <<6109, 6109>>, <<6155, 6159>>, <<6211, 6211>>, <<6277, 6278>>,
    <<6313, 6313>>, <<6432, 6434>>, <<6439, 6440>>, <<6450, 6450>>, <<6457, 6459>>, <<6679, 6680>>,
    <<6683, 6683>>, <<6742, 6742>>, <<6744, 6750>>, <<6752, 6752>>, <<6754, 6754>>, <<6757, 6764>>,
    <<6771, 6780>>, <<6783, 6783>>, <<6823, 6823>>, <<6832, 6862>>, <<6912, 6915>>, <<6964, 6964>>,
    <<6966, 6970>>, <<6972, 6972>>, <<6978, 6978>>, <<7019, 7027>>, <<7040, 7041>>, <<7074, 7077>>,
    <<7080, 7081>>, <<7083, 7085>>, <<7142, 7142>>, <<7144, 7145>>, <<7149, 7149>>, <<7151, 7153>>,
    <<7212, 7219>>, <<7222, 7223>>, <<7288, 7293>>, <<7376, 7378>>, <<7380, 7392>>, <<7394, 7400>>,
    <<7405, 7405>>, <<7412, 7412>>, <<7416, 7417>>, <<7468, 7530>>, <<7544, 7544>>, <<7579, 7679>>,
    <<8125, 8125>>, <<8127, 8129>>, <<8141, 8143>>, <<8157, 8159>>, <<8173, 8175>>, <<8189, 8190>>,
    <<8203, 8207>>, <<8216, 8217>>, <<8228, 8228>>, <<8231, 8231>>, <<8234, 8238>>, <<8288, 8292>>,
    <<8294, 8303>>, <<8305, 8305>>, <<8319, 8319>>, <<8336, 8348>>, <<8400, 8432>>, <<11388, 11389>>,
    <<11503, 11505>>, <<11631, 11631>>, <<11647, 11647>>, <<11744, 11775>>, <<11823, 11823>>, <<12293, 12293>>,
    <<12330, 12333>>, <<12337, 12341>>, <<12347, 12347>>, <<12441, 12446>>, <<12540, 12542>>, <<40981, 40981>>,
    <<42232, 42237>>, <<42508, 42508>>, <<42607, 42610>>, <<42612, 42621>>, <<42623, 42623>>, <<42652, 42655>>,
    <<42736, 42737>>, <<42752, 42785>>, <<42864, 42864>>, <<42888, 42890>>, <<42994, 42996>>, <<43000, 43001>>,
    <<43010, 43010>>, <<43014, 43014>>, <<43019, 43019>>, <<43045, 43046>>, <<43052, 43052>>, <<43204, 43205>>,
    <<43232, 43249>>, <<43263, 43263>>, <<43302, 43309>>, <<43335, 43345>>, <<43392, 43394>>, <<43443, 43443>>,
    <<43446, 43449>>, <<43452, 43453>>, <<43471, 43471>>, <<43493, 43494>>, <<43561, 43566>>, <<43569, 43570>>,
    <<43573, 43574>>, <<43587, 43587>>, <<43596, 43596>>, <<43632, 43632>>, <<43644, 43644>>, <<43696, 43696>>,
    <<43698, 43700>>, <<43703, 43704>>, <<43710, 43711>>, <<43713, 43713>>, <<43741, 43741>>, <<43756, 43757>>,
    <<43763, 43764>>, <<43766, 43766>>, <<43867, 43871>>, <<43881, 43883>>, <<44005, 44005>>, <<44008, 44008>>,
    <<44013, 44013>>, <<64286, 64286>>, <<64434, 64450>>, <<65024, 65039>>, <<65043, 65043>>, <<65056, 65071>>,
    <<65106, 65106>>, <<65109, 65109>>, <<65279, 65279>>, <<65287, 65287>>, <<65294, 65294>>, <<65306, 65306>>,
    <<65342, 65342>>, <<65344, 65344>>, <<65392, 65392>>, <<65438, 65439>>, <<65507, 65507>>, <<65529, 65531>>,
    <<66045, 66045>>, <<66272, 66272>>, <<66422, 66426>>, <<67456, 67461>>, <<67463, 67504>>, <<67506, 67514>>,
    <<68097, 68099>>, <<68101, 68102>>, <<68108, 68111>>, <<68152, 68154>>, <<68159, 68159>>, <<68325, 68326>>,
    <<68900, 68903>>, <<69291, 69292>>, <<69446, 69456>>, <<69506, 69509>>, <<69633, 69633>>, <<69688, 69702>>,
    <<69744, 69744>>, <<69747, 69748>>, <<69759, 69761>>, <<69811, 69814>>, <<69817, 69818>>, <<69821, 69821>>,
    <<69826, 69826>>, <<69837, 69837>>, <<69888, 69890>>, <<69927, 69931>>, <<69933, 69940>>, <<70003, 70003>>,
    <<70016, 70017>>, <<70070, 70078>>, <<70089, 70092>>, <<70095, 70095>>, <<70191, 70193>>, <<70196, 70196>>,
    <<70198, 70199>>, <<70206, 70206>>, <<70367, 70367>>, <<70371, 70378>>, <<70400, 70401>>, <<70459, 70460>>,
    <<70464, 70464>>, <<70502, 70508>>, <<70512, 70516>>, <<70712, 70719>>, <<70722, 70724>>, <<70726, 70726>>,
    <<70750, 70750>>, <<70835, 70840>>, <<70842, 70842>>, <<70847, 70848>>, <<70850, 70851>>, <<71090, 71093>>,
    <<71100, 71101>>, <<71103, 71104>>, <<71132, 71133>>, <<71219, 71226>>, <<71229, 71229>>, <<71231, 71232>>,
    <<71339, 71339>>, <<71341, 71341>>, <<71344, 71349>>, <<71351, 71351>>, <<71453, 71455>>, <<71458, 71461>>,
    <<71463, 71467>>, <<71727, 71735>>, <<71737, 71738>>, <<71995, 71996>>, <<71998, 71998>>, <<72003, 72003>>,
    <<72148, 72151>>, <<72154, 72155>>, <<72160, 72160>>, <<72193, 72202>>, <<72243, 72248>>, <<72251, 72254>>,
    <<72263, 72263>>, <<72273, 72278>>, <<72281, 72283>>, <<72330, 72342>>, <<72344, 72345>>, <<72752, 72758>>,
    <<72760, 72765>>, <<72767, 72767>>, <<72850, 72871>>, <<72874, 72880>>, <<72882, 72883>>, <<72885, 72886>>,
    <<73009, 73014>>, <<73018, 73018>>, <<73020, 73021>>, <<73023, 73029>>, <<73031, 73031>>, <<73104, 73105>>,
    <<73109, 73109>>, <<73111, 73111>>, <<73459, 73460>>, <<78896, 78904>>, <<92912, 92916>>, <<92976, 92982>>,
    <<92992, 92995>>, <<94031, 94031>>, <<94095, 94111>>, <<94176, 94177>>, <<94179, 94180>>, <<110576, 110579>>,
    <<110581, 110587>>, <<110589, 110590>>, <<113821, 113822>>, <<113824, 113827>>, <<118528, 118573>>, <<118576, 118598>>,
    <<119143, 119145>>, <<119155, 119170>>, <<119173, 119179>>, <<119210, 119213>>, <<119362, 119364>>, <<121344, 121398>>,
    <<121403, 121452>>, <<121461, 121461>>, <<121476, 121476>>, <<121499, 121503>>, <<121505, 121519>>, <<122880, 122886>>,
    <<122888, 122904>>, <<122907, 122913>>, <<122915, 122916>>, <<122918, 122922>>, <<123184, 123197>>, <<123566, 123566>>,
    <<123628, 123631>>, <<125136, 125142>>, <<125252, 125259>>, <<127995, 127999>>, <<917505, 917505>>, <<917536, 917631>>,
    <<917760, 917999>>
>>

\* Cased characters
CasedRanges == <<
    <<65, 90>>, <<97, 122>>, <<170, 170>>, <<181, 181>>, <<186, 186>>, <<192, 214>>,
    <<216, 246>>, <<248, 442>>, <<444, 447>>, <<452, 659>>, <<661, 696>>, <<704, 705>>,
    <<736, 740>>, <<837, 837>>, <<880, 883>>, <<886, 887>>, <<890, 893>>, <<895, 895>>,
    <<902, 902>>, <<904, 906>>, <<908, 908>>, <<910, 929>>, <<931, 1013>>, <<1015, 1153>>,
    <<1162, 1327>>, <<1329, 1366>>, <<1376, 1416>>, <<4256, 4293>>, <<4295, 4295>>, <<4301, 4301>>,
    <<4304, 4346>>, <<4349, 4351>>, <<5024, 5109>>, <<5112, 5117>>, <<7296, 7304>>, <<7312, 7354>>,
    <<7357, 7359>>, <<7424, 7615>>, <<7680, 7957>>, <<7960, 7965>>, <<7968, 8005>>, <<8008, 8013>>,
    <<8016, 8023>>, <<8025, 8025>>, <<8027, 8027>>, <<8029, 8029>>, <<8031, 8061>>, <<8064, 8116>>,
    <<8118, 8124>>, <<8126, 8126>>, <<8130, 8132>>, <<8134, 8140>>, <<8144, 8147>>, <<8150, 8155>>,
    <<8160, 8172>>, <<8178, 8180>>, <<8182, 8188>>, <<8305, 8305>>, <<8319, 8319>>, <<8336, 8348>>,
    <<8450, 8450>>, <<8455, 8455>>, <<8458, 8467>>, <<8469, 8469>>, <<8473, 8477>>, <<8484, 8484>>,
    <<8486, 8486>>, <<8488, 8488>>, <<8490, 8493>>, <<8495, 8500>>, <<8505, 8505>>, <<8508, 8511>>,
    <<8517, 8521>>, <<8526, 8526>>, <<8544, 8575>>, <<8579, 8580>>, <<9398, 9449>>, <<11264, 11492>>,
    <<11499, 11502>>, <<11506, 11507>>, <<11520, 11557>>, <<11559, 11559>>, <<11565, 11565>>, <<42560, 42605>>,
    <<42624, 42653>>, <<42786, 42887>>, <<42891, 42894>>, <<42896, 42954>>, <<42960, 42961>>, <<42963, 42963>>,
    <<42965, 42969>>, <<42997, 42998>>, <<43000, 43002>>, <<43824, 43866>>, <<43868, 43880>>, <<43888, 43967>>,
    <<64256, 64262>>, <<64275, 64279>>, <<65313, 65338>>, <<65345, 65370>>, <<66560, 66639>>, <<66736, 66771>>,
    <<66776, 66811>>, <<66928, 66938>>, <<66940, 66954>>, <<66956, 66962>>, <<66964, 66965>>, <<66967, 66977>>,
    <<66979, 66993>>, <<66995, 67001>>, <<67003, 67004>>, <<67456, 67456>>, <<67459, 67461>>, <<67463, 67504>>,
    <<67506, 67514>>, <<68736, 68786>>, <<68800, 68850>>, <<71840, 71903>>, <<93760, 93823>>, <<119808, 119892>>,
    <<119894, 119964>>, <<119966, 119967>>, <<119970, 119970>>, <<119973, 119974>>, <<119977, 119980>>, <<119982, 119993>>,
    <<119995, 119995>>, <<119997, 120003>>, <<120005, 120069>>, <<120071, 120074>>, <<120077, 120084>>, <<120086, 120092>>,
    <<120094, 120121>>, <<120123, 120126>>, <<120128, 120132>>, <<120134, 120134>>, <<120138, 120144>>, <<120146, 120485>>,
    <<120488, 120512>>, <<120514, 120538>>, <<120540, 120570>>, <<120572, 120596>>, <<120598, 120628>>, <<120630, 120654>>,
    <<120656, 120686>>, <<120688, 120712>>, <<120714, 120744>>, <<120746, 120770>>, <<120772, 120779>>, <<122624, 122633>>,
    <<122635, 122654>>, <<125184, 125251>>, <<127280, 127305>>, <<127312, 127337>>, <<127344, 127369>>
>>

IsCaseIgnorable(c) == InRanges(c, CaseIgnorableRanges)

IsCased(c) == InRanges(c, CasedRanges)

\* str.lower() of one character: a text, since U+0130 (304, capital I with
\* dot above) lowers to two code points, i and the combining dot above (775)
LowerChar(c) ==
    IF c = 304 THEN <<105, 775>>
    ELSE LET k == RangeIndex(LowerRuns, c, 1, Len(LowerRuns))
         IN IF k > 0 /\ (c - LowerRuns[k][1]) % LowerRuns[k][4] = 0
            THEN <<c + LowerRuns[k][3]>>
            ELSE <<c>>

----------------------------------------------------------------------------
(* String primitives used by the Text Normalizer *)

\* text[i:] starts with pat
StartsWithAt(text, i, pat) ==
    /\ i + Len(pat) - 1 <= Len(text)
    /\ \A k \in 1..Len(pat) : text[i + k - 1] = pat[k]

RECURSIVE ReplaceFrom(_, _, _, _)
ReplaceFrom(text, i, pat, rep) ==
    IF i > Len(text) THEN <<>>
    ELSE IF StartsWithAt(text, i, pat)
         THEN rep \o ReplaceFrom(text, i + Len(pat), pat, rep)
         ELSE <<text[i]>> \o ReplaceFrom(text, i + 1, pat, rep)

\* str.replace(pat, rep): leftmost non-overlapping occurrences
StrReplace(text, pat, rep) == ReplaceFrom(text, 1, pat, rep)

\* re.split(r'\W+', text): the pieces between maximal runs of non-word
\* characters; a run at either end leaves an empty piece there
RECURSIVE SplitNonWordFrom(_, _, _)
SplitNonWordFrom(text, i, cur) ==
    IF i > Len(text) THEN <<cur>>
    ELSE IF IsWordChar(text[i])
         THEN SplitNonWordFrom(text, i + 1, Append(cur, text[i]))
         ELSE IF i > 1 /\ ~IsWordChar(text[i - 1])
              THEN SplitNonWordFrom(text, i + 1, cur)
              ELSE <<cur>> \o SplitNonWordFrom(text, i + 1, <<>>)

SplitNonWord(text) == SplitNonWordFrom(text, 1, <<>>)

\* Whether the capital sigma (931) at place i of w is final: before it, past
\* any case-ignorable characters, comes a cased character, and after it,
\* past any case-ignorable characters, comes none
FinalSigma(w, i) ==
    LET before == {j \in 1..(i - 1) : ~IsCaseIgnorable(w[j])}
        after  == {j \in (i + 1)..Len(w) : ~IsCaseIgnorable(w[j])}
    IN /\ before # {}
       /\ IsCased(w[CHOOSE j \in before : \A k \in before : k <= j])
       /\ \/ after = {}
          \/ ~IsCased(w[CHOOSE j \in after : \A k \in after : j <= k])

RECURSIVE LowerFrom(_, _)
LowerFrom(w, i) ==
    IF i > Len(w) THEN <<>>
    ELSE (IF w[i] = 931 THEN <<IF FinalSigma(w, i) THEN 962 ELSE 963>>
          ELSE LowerChar(w[i]))
         \o LowerFrom(w, i + 1)

\* word.lower()
LowerText(w) == LowerFrom(w, 1)

\* sep.join(words)
RECURSIVE Join(_, _)
Join(words, sep) ==
    IF words = <<>> THEN <<>>
    ELSE IF Len(words) = 1 THEN words[1]
    ELSE words[1] \o sep \o Join(Tail(words), sep)

\* re.sub("[A-Za-z]+", lambda ele: " " + ele[0] + " ", text)
RECURSIVE SpaceAlphaFrom(_, _)
SpaceAlphaFrom(text, i) ==
    IF i > Len(text) THEN <<>>
    ELSE IF IsAsciiAlpha(text[i])
         THEN (IF i = 1 \/ ~IsAsciiAlpha(text[i - 1]) THEN Space ELSE <<>>)
              \o <<text[i]>>
              \o (IF i = Len(text) \/ ~IsAsciiAlpha(text[i + 1]) THEN Space ELSE <<>>)
              \o SpaceAlphaFrom(text, i + 1)
         ELSE <<text[i]>> \o SpaceAlphaFrom(text, i + 1)

\* The substitution left out
SpaceAlphaRuns_none(text) == text

SpaceAlphaRuns(text) == SpaceAlphaFrom(text, 1)

\* re.sub('( a | b | c )', rep, text): at each position the first alternative
\* that matches is taken, and the scan resumes after the match
RECURSIVE SubAltFrom(_, _, _, _)
SubAltFrom(text, i, alts, rep) ==
    IF i > Len(text) THEN <<>>
    ELSE IF \E a \in 1..Len(alts) : StartsWithAt(text, i, alts[a])
         THEN LET a == CHOOSE a \in 1..Len(alts) :
                         /\ StartsWithAt(text, i, alts[a])
                         /\ \A b \in 1..(a - 1) : ~StartsWithAt(text, i, alts[b])
              IN rep \o SubAltFrom(text, i + Len(alts[a]), alts, rep)
         ELSE <<text[i]>> \o SubAltFrom(text, i + 1, alts, rep)

SubAlternatives(text, alts, rep) == SubAltFrom(text, 1, alts, rep)

\* str.split(): the maximal runs of non-whitespace characters
RECURSIVE SplitSpaceFrom(_, _, _)
SplitSpaceFrom(text, i, cur) ==
    IF i > Len(text) THEN (IF cur = <<>> THEN <<>> ELSE <<cur>>)
    ELSE IF IsSpace(text[i])
         THEN (IF cur = <<>> THEN <<>> ELSE <<cur>>) \o SplitSpaceFrom(text, i + 1, <<>>)
         ELSE SplitSpaceFrom(text, i + 1, Append(cur, text[i]))

SplitSpace(text) == SplitSpaceFrom(text, 1, <<>>)

\* " " + word + " "
Padded(word) == Space \o word \o Space

----------------------------------------------------------------------------
(* The Text Normalizer: train.py, clean_text / standardize_units / preprocess *)

\* Position of the '>' closing a tag opened at i: '<', one or more characters
\* other than '>', then '>'. 0 when no tag starts at i.
TagEnd(text, i) ==
    IF text[i] # TagOpen THEN 0
    ELSE LET closers == {j \in (i + 1)..Len(text) : text[j] = TagClose}
         IN IF closers = {} THEN 0
            ELSE LET j == CHOOSE j \in closers : \A k \in closers : j <= k
                 IN IF j >= i + 2 THEN j ELSE 0

RECURSIVE CleanFrom(_, _)
CleanFrom(text, i) ==
    IF i > Len(text) THEN <<>>
    ELSE IF TagEnd(text, i) > 0 THEN CleanFrom(text, TagEnd(text, i) + 1)
    ELSE <<text[i]>> \o CleanFrom(text, i + 1)

\* clean_text: re.compile(r'<[^>]+>', re.S).sub('', text)
clean_text(text) == CleanFrom(text, 1)
\* The unit table of standardize_units: one entry per re.sub, in order;
\* alts are the alternatives of the pattern, in order, without their spaces
UnitTable == <<
    [canon |-> Str(<<"g","a","l","l","o","n">>),
     alts |-> <<Str(<<"g","a","l">>), Str(<<"g","a","l","s">>), Str(<<"g","a","l","o","n">>)>>],
    [canon |-> Str(<<"f","e","e","t">>),
     alts |-> <<Str(<<"f","t">>), Str(<<"f","t","s">>), Str(<<"f","e","e","t","s">>), Str(<<"f","o","o","t">>), Str(<<"f","o","o","t","s">>)>>],
    [canon |-> Str(<<"s","q","u","a","r","e">>),
     alts |-> <<Str(<<"s","q","u","a","r","e","s">>), Str(<<"s","q">>)>>],
    [canon |-> Str(<<"p","o","u","n","d">>),
     alts |-> <<Str(<<"l","b">>), Str(<<"l","b","s">>), Str(<<"p","o","u","n","d","s">>)>>],
    [canon |-> Str(<<"o","u","n","c","e">>),
     alts |-> <<Str(<<"o","z">>), Str(<<"o","z","s">>), Str(<<"o","u","n","c","e","s">>), Str(<<"o","u","n","c">>)>>],
    [canon |-> Str(<<"y","a","r","d">>),
     alts |-> <<Str(<<"y","d","s">>), Str(<<"y","d">>), Str(<<"y","a","r","d","s">>)>>]
>>

\* The alternatives of entry e as the pattern has them: ' gal ', ' gals ', ...
PaddedAlts(e) == [a \in 1..Len(e.alts) |-> Padded(e.alts[a])]

RECURSIVE ApplyUnits(_, _)
ApplyUnits(text, k) ==
    IF k > Len(UnitTable) THEN text
    ELSE ApplyUnits(SubAlternatives(text, PaddedAlts(UnitTable[k]),
                                    Padded(UnitTable[k].canon)), k + 1)

\* standardize_units: pad with a space at both ends, then the six substitutions
standardize_units(text) == ApplyUnits(Padded(text), 1)

\* [word.lower() for word in words]
LowerWords(words) == [k \in 1..Len(words) |-> LowerText(words[k])]

\* 'in.' and ' inch ' of line 44
InchAbbreviation == Str(<<"i","n",".">>)
InchWord == Str(<<" ","i","n","c","h"," ">>)

\* preprocess
preprocess(text) ==
    LET replaced == StrReplace(text, InchAbbreviation, InchWord)
        words    == LowerWords(SplitNonWord(replaced))
        res      == SpaceAlphaRuns(Join(words, Space))
        units    == standardize_units(res)
    IN Join(SplitSpace(units), Space)

----------------------------------------------------------------------------
(* Tables (pandas DataFrames): [cols |-> sequence of column names,          *)
(* rows |-> sequence of rows], a row being a function on the column names   *)

\* A missing value (NaN) in a text column
NaN == <<-1>>

RECURSIVE Concat(_)
Concat(ss) == IF ss = <<>> THEN <<>> ELSE Head(ss) \o Concat(Tail(ss))

Range(f) == {f[i] : i \in DOMAIN f}

\* Series.unique(): the values in order of first appearance
RECURSIVE Unique(_)
Unique(xs) ==
    IF xs = <<>> THEN <<>>
    ELSE LET front == Unique(SubSeq(xs, 1, Len(xs) - 1))
             last  == xs[Len(xs)]
         IN IF last \in Range(front) THEN front ELSE Append(front, last)

Column(rows, c) == [i \in 1..Len(rows) |-> rows[i][c]]

\* df[[c1, c2, ...]]
SelectColumns(rows, cols) == [i \in 1..Len(rows) |-> [c \in Range(cols) |-> rows[i][c]]]

----------------------------------------------------------------------------
(* main(), 0. Init variables: train.py lines 64-78 *)

PairsCols == <<"query_id", "query", "query_locale", "esci_label", "product_id">>
CatalogueCols == <<"product_id", "product_title", "product_locale">>
Locales == {"us", "es", "jp"}
Labels == <<"exact", "substitute", "complement", "irrelevant">>

\* The table with two gains exchanged
esci_label2gain_swapped(label) ==
    CASE label = "exact"      -> 100
      [] label = "substitute" -> 1
      [] label = "complement" -> 10
      [] label = "irrelevant" -> 0

\* esci_label2gain of main(), in hundredths
esci_label2gain(label) ==
    CASE label = "exact"      -> 100
      [] label = "substitute" -> 10
      [] label = "complement" -> 1
      [] label = "irrelevant" -> 0

\* esci_label2gain of augment_text(), in hundredths
aug_esci_label2gain(label) ==
    CASE label = "exact"      -> 100
      [] label = "substitute" -> 10
      [] label = "complement" -> 1
      [] label = "irrelevant" -> 0

----------------------------------------------------------------------------
(* main(), 1. Load data: train.py lines 81-100 *)

\* df[df[query_locale] == locale], likewise for the catalogue
FilterLocale(rows, col, locale) == SelectSeq(rows, LAMBDA r : r[col] = locale)

\* One row of the left join: the pair's columns and the catalogue's
JoinedRow(l, title, plocale) ==
    [c \in Range(PairsCols) \cup {"product_title", "product_locale"} |->
        IF c = "product_title" THEN title
        ELSE IF c = "product_locale" THEN plocale
        ELSE l[c]]

\* pd.merge(df, df_product_catalogue, how='left',
\*          left_on=[product_id, query_locale], right_on=[product_id, product_locale])
MergeLeft(left, right) ==
    Concat([i \in 1..Len(left) |->
        LET m == SelectSeq(right, LAMBDA c :
                     /\ c["product_id"] = left[i]["product_id"]
                     /\ c["product_locale"] = left[i]["query_locale"])
        IN IF m = <<>> THEN <<JoinedRow(left[i], NaN, "NaN")>>
           ELSE [j \in 1..Len(m) |->
                    JoinedRow(left[i], m[j]["product_title"], m[j]["product_locale"])]])

\* Lines 83-92: the rows of df once filtered, joined and rid of missing titles
LoadedRows(prs, cat, locale) ==
    LET left   == FilterLocale(prs, "query_locale", locale)
        right  == FilterLocale(cat, "product_locale", locale)
        merged == MergeLeft(left, right)
    IN SelectSeq(merged, LAMBDA r : r["product_title"] # NaN)

----------------------------------------------------------------------------
(* The size of the dev split: train.py lines 94-96.                         *)
(*                                                                          *)
(* dev_size = n_dev_queries / len(list_query_id) is a double, and           *)
(* train_test_split takes n_test = ceil(dev_size * n_samples), a second     *)
(* double operation. Both are IEEE-754 binary64, round to nearest, ties to  *)
(* even, and are computed here exactly, on integers, for 0 < n < d:         *)
(*   s is such that 1 <= n * 2^s / d < 2, so the quotient's significand is  *)
(*   m = round(n * 2^(52+s) / d); with rem = (n * 2^(52+s)) mod d the       *)
(*   quotient is rounded up when 2 rem > d (or 2 rem = d and the floor is   *)
(*   odd), and then m * d exceeds n * 2^(52+s) by d - rem; the product      *)
(*   rounds to the double above n exactly when that excess is more than     *)
(*   half an ulp of n, that is d - rem > 2^(s + f - 2), f the bit length    *)
(*   of n.                                                                  *)

RECURSIVE Pow2(_)
Pow2(k) == IF k = 0 THEN 1 ELSE 2 * Pow2(k - 1)

\* x * 2^k mod m, by k doublings
RECURSIVE DoubleMod(_, _, _)
DoubleMod(x, k, m) == IF k = 0 THEN x % m ELSE DoubleMod((2 * x) % m, k - 1, m)

\* The least s >= 1 with n * 2^s >= d
RECURSIVE UnitShift(_, _, _)
UnitShift(n, d, s) == IF n * Pow2(s) >= d THEN s ELSE UnitShift(n, d, s + 1)

\* The least f >= 1 with n < 2^f
RECURSIVE BitLength(_, _)
BitLength(n, f) == IF n < Pow2(f) THEN f ELSE BitLength(n, f + 1)

\* The width of a double's significand
MantissaBits == 52

\* ceil((n / d) * d) in doubles, for 0 < n < d
CeilOfRoundTrip(n, d) ==
    LET s       == UnitShift(n, d, 1)
        f       == BitLength(n, 1)
        x       == DoubleMod(n, MantissaBits + s, 2 * d)
        rem     == x % d
        floorOdd == x >= d
        up      == 2 * rem > d \/ (2 * rem = d /\ floorOdd)
    IN IF up /\ d - rem > Pow2(s + f - 2) THEN n + 1 ELSE n

\* A split that takes any positive test size, capped at the whole list
SplitSizes_unchecked(n, d) ==
    IF d = 0 THEN [ok |-> FALSE, error |-> "ZeroDivisionError", n_test |-> 0, n_train |-> 0]
    ELSE IF n <= 0
    THEN [ok |-> FALSE, error |-> "ValueError", n_test |-> 0, n_train |-> 0]
    ELSE LET n_test == IF n >= d THEN d ELSE n
         IN [ok |-> TRUE, error |-> "", n_test |-> n_test, n_train |-> d - n_test]

\* _validate_shuffle_split as train_test_split reaches it with a float
\* test_size and no train_size: [ok, error, n_test, n_train]
SplitSizes(n, d) ==
    IF d = 0 THEN [ok |-> FALSE, error |-> "ZeroDivisionError", n_test |-> 0, n_train |-> 0]
    ELSE IF n <= 0 \/ n >= d
    THEN [ok |-> FALSE, error |-> "ValueError", n_test |-> 0, n_train |-> 0]
    ELSE LET n_test == CeilOfRoundTrip(n, d)
         IN IF d - n_test = 0
            THEN [ok |-> FALSE, error |-> "ValueError", n_test |-> n_test, n_train |-> 0]
            ELSE [ok |-> TRUE, error |-> "", n_test |-> n_test, n_train |-> d - n_test]

\* Bounds of the inputs
MaxQueries == 4
RowsPerQuery == 2
MaxDevQueries == 4
MaxSeed == 1

----------------------------------------------------------------------------
(* The permutation of train_test_split: train.py lines 95-96.               *)
(*                                                                          *)
(* train_test_split(list_query_id, test_size, random_state) shuffles with   *)
(* numpy.random.RandomState(random_state).permutation(n): the Mersenne      *)
(* Twister MT19937 seeded from the integer, and a Fisher-Yates shuffle      *)
(* from the last place down, each index drawn by masked rejection from      *)
(* one 32-bit output. A 32-bit word is a pair <<high, low>> of 16-bit       *)
(* halves. The first 624 outputs are modelled, more than a list of a few    *)
(* hundred entries draws; an index is read off the low half, which covers   *)
(* lists of up to 65536 entries.                                            *)

\* a ^ b and a & b on 4 bits
XorNibble(a, b) ==
    ((a + b) % 2)
    + 2 * (((a \div 2) + (b \div 2)) % 2)
    + 4 * (((a \div 4) + (b \div 4)) % 2)
    + 8 * (((a \div 8) + (b \div 8)) % 2)

AndNibble(a, b) ==
    ((a % 2) * (b % 2))
    + 2 * (((a \div 2) % 2) * ((b \div 2) % 2))
    + 4 * (((a \div 4) % 2) * ((b \div 4) % 2))
    + 8 * ((a \div 8) * (b \div 8))

\* a ^ b and a & b on 16 bits, a nibble at a time
Xor16(a, b) ==
    XorNibble(a % 16, b % 16)
    + 16 * XorNibble((a \div 16) % 16, (b \div 16) % 16)
    + 256 * XorNibble((a \div 256) % 16, (b \div 256) % 16)
    + 4096 * XorNibble(a \div 4096, b \div 4096)

And16(a, b) ==
    AndNibble(a % 16, b % 16)
    + 16 * AndNibble((a \div 16) % 16, (b \div 16) % 16)
    + 256 * AndNibble((a \div 256) % 16, (b \div 256) % 16)
    + 4096 * AndNibble(a \div 4096, b \div 4096)

Xor32(x, y) == <<Xor16(x[1], y[1]), Xor16(x[2], y[2])>>

And32(x, y) == <<And16(x[1], y[1]), And16(x[2], y[2])>>

\* x >> k for 0 < k < 16, given p = 2^k and q = 2^(16-k)
ShiftRight(x, p, q) == <<x[1] \div p, (x[2] \div p) + (x[1] % p) * q>>

\* x >> (16 + k) for 0 <= k < 16, given p = 2^k
ShiftRightHalf(x, p) == <<0, x[1] \div p>>

\* (x << k) mod 2^32 for 0 < k < 16, given p = 2^k and q = 2^(16-k)
ShiftLeft(x, p, q) == <<((x[1] * p) % 65536) + (x[2] \div q), (x[2] * p) % 65536>>

\* a * b mod 2^16 for 16-bit a and b, b taken a byte at a time
MulMod16(a, b) == (a * (b % 256) + ((a * (b \div 256)) % 256) * 256) % 65536

\* The next word of the seeding: 1812433253 * (x ^ (x >> 30)) + pos + 1
\* mod 2^32; 1812433253 is 0x6C07 8965, halves 27655 and 35173
SeedStep(x, pos) ==
    LET t       == Xor32(x, ShiftRightHalf(x, 16384))
        p0      == 35173 * (t[2] % 256)
        p1      == 35173 * (t[2] \div 256)
        lowsum  == p0 + (p1 % 256) * 256
        carry   == (lowsum \div 65536) + (p1 \div 256)
        hi      == (carry + MulMod16(27655, t[2]) + MulMod16(35173, t[1])) % 65536
        lo      == (lowsum % 65536) + pos + 1
    IN <<(hi + (lo \div 65536)) % 65536, lo % 65536>>

\* The seeding continued by k words: acc[pos + 1] is word pos, and word
\* pos + 1 follows from word pos. The k steps are taken half by half.
RECURSIVE KeyExtend(_, _)
KeyExtend(acc, k) ==
    IF k = 0 THEN acc
    ELSE IF k = 1 THEN Append(acc, SeedStep(acc[Len(acc)], Len(acc) - 1))
    ELSE LET half == KeyExtend(acc, k \div 2)
         IN IF Len(half) = 0 THEN half ELSE KeyExtend(half, k - (k \div 2))

\* The state after seeding, 624 words, word 0 being the seed
SeededKey(seed) == KeyExtend(<<<<seed \div 65536, seed % 65536>>>>, 623)

\* --random_state: its default, and the seeds tried
DefaultRandomState == 42
Seeds == ((-1)..MaxSeed) \cup {DefaultRandomState}

\* The seeded states of the seeds RandomState accepts
SeededKeys == [seed \in {s \in Seeds : s >= 0} |-> SeededKey(seed)]

\* Word kk of the state once regenerated (the twist), 0 <= kk < 624; the
\* matrix constant 0x9908b0df has halves 39176 and 45279
RECURSIVE TwistedWord(_, _)
TwistedWord(key, kk) ==
    LET cur   == key[kk + 1]
        nxt   == IF kk = 623 THEN TwistedWord(key, 0) ELSE key[kk + 2]
        y     == <<(cur[1] \div 32768) * 32768 + (nxt[1] % 32768), nxt[2]>>
        far   == IF kk < 227 THEN key[kk + 398] ELSE TwistedWord(key, kk - 227)
        mag   == IF y[2] % 2 = 1 THEN <<39176, 45279>> ELSE <<0, 0>>
    IN Xor32(Xor32(far, ShiftRight(y, 2, 32768)), mag)

\* The tempering of an output word: y ^= y >> 11; y ^= (y << 7) & 0x9d2c5680;
\* y ^= (y << 15) & 0xefc60000; y ^= y >> 18
Tempered(w) ==
    LET y1 == Xor32(w, ShiftRight(w, 2048, 32))
        y2 == Xor32(y1, And32(ShiftLeft(y1, 128, 512), <<40236, 22144>>))
        y3 == Xor32(y2, And32(ShiftLeft(y2, 32768, 2), <<61382, 0>>))
    IN Xor32(y3, ShiftRightHalf(y3, 4))

\* An index in 0..max: outputs masked to the bits of max, from output pos
\* on, until one is at most max. <<index, next output>>
RECURSIVE DrawInterval(_, _, _)
DrawInterval(key, pos, max) ==
    LET v == Tempered(TwistedWord(key, pos))[2] % Pow2(BitLength(max, 1))
    IN IF v <= max THEN <<v, pos + 1>> ELSE DrawInterval(key, pos + 1, max)

\* One step of the shuffle, st = <<arr, pos>>: the entry at place i (from 0)
\* changes places with the entry at a drawn place of 0..i
ShuffleStep(key, st, i) ==
    LET arr == st[1]
        d   == DrawInterval(key, st[2], i)
        j   == d[1]
    IN <<[arr EXCEPT ![i + 1] = arr[j + 1], ![j + 1] = arr[i + 1]], d[2]>>

\* k steps of the shuffle at places i, i-1, ..., taken half by half
RECURSIVE ShuffleFrom(_, _, _, _)
ShuffleFrom(key, st, i, k) ==
    IF k <= 0 THEN st
    ELSE IF k = 1 THEN ShuffleStep(key, st, i)
    ELSE LET half == ShuffleFrom(key, st, i, k \div 2)
         IN IF Len(half) = 0 THEN half
            ELSE ShuffleFrom(key, half, i - (k \div 2), k - (k \div 2))

\* RandomState(seed).permutation(n): a permutation of 0..n-1. The state
\* after seeding is the same at every call, and kept for the seeds tried
Permutation(seed, n) ==
    LET key == IF seed \in DOMAIN SeededKeys THEN SeededKeys[seed] ELSE SeededKey(seed)
    IN ShuffleFrom(key, <<[k \in 1..n |-> k - 1], 0>>, n - 1, n - 1)[1]

\* list_query_id_dev: the entries at the first n_test places of the
\* permutation perm
TestIds(ids, perm, n_test) == {ids[perm[k] + 1] : k \in 1..n_test}

\* A split that trains on every query
TrainIds_all(ids, perm, n_test, n_train) == Range(ids)

\* list_query_id_train: the entries at the next n_train places
TrainIds(ids, perm, n_test, n_train) ==
    {ids[perm[k] + 1] : k \in (n_test + 1)..(n_test + n_train)}

\* Line 97: df[gain] = df[esci_label].apply(lambda label: esci_label2gain[label])
WithGain(rows) ==
    [i \in 1..Len(rows) |->
        [c \in DOMAIN rows[i] \cup {"gain"} |->
            IF c = "gain" THEN esci_label2gain(rows[i]["esci_label"]) ELSE rows[i][c]]]

\* Line 98: the columns main keeps
SplitCols == <<"query_id", "query", "product_title", "gain", "esci_label">>

\* Lines 99-100: df[df[query_id].isin(ids)]
RowsOfQueries(rows, ids) == SelectSeq(rows, LAMBDA r : r["query_id"] \in ids)

\* Lines 103-104: preprocess over product_title and query
NormalizedRows(rows) ==
    [i \in 1..Len(rows) |->
        [c \in DOMAIN rows[i] |->
            IF c \in {"product_title", "query"} THEN preprocess(rows[i][c]) ELSE rows[i][c]]]

\* Lines 110-112: one InputExample per training row
InputExamples(rows) ==
    [i \in 1..Len(rows) |->
        [texts |-> <<rows[i]["query"], rows[i]["product_title"]>>, label |-> rows[i]["gain"]]]

\* Lines 115-128: dev_samples, keyed by the query text's order of first appearance
DevSamples(rows) ==
    LET uq == Unique(Column(rows, "query"))
    IN [q \in 1..Len(uq) |->
          [query    |-> uq[q],
           positive |-> {rows[i]["product_title"] :
                            i \in {j \in 1..Len(rows) : rows[j]["query"] = uq[q] /\ rows[j]["gain"] > 0}},
           negative |-> {rows[i]["product_title"] :
                            i \in {j \in 1..Len(rows) : rows[j]["query"] = uq[q] /\ ~(rows[j]["gain"] > 0)}}]]

\* Lines 166-169: the similarity evaluator's three lists
SimilarityLists(rows) ==
    [queries |-> Column(rows, "query"), titles |-> Column(rows, "product_title"),
     scores |-> Column(rows, "gain")]

NoTable == [cols |-> <<>>, rows |-> <<>>]
NoSplit == [train |-> {}, dev |-> {}]
NoEvaluator == [kind |-> "none"]

\* samples=150000, the default of augment_text
DefaultSamples == 150000

AugIdle == [pc |-> "idle", df |-> NoTable, samples |-> 0, df_n |-> <<>>,
            picks |-> <<>>, new |-> NoTable, error |-> ""]
TxtIdle == [stage |-> "idle", input |-> <<>>, once |-> <<>>, twice |-> <<>>]

Fail(e) == pc' = "failed" /\ error' = e

----------------------------------------------------------------------------
(* The stages of main() *)

\* Lines 81-92
LoadData ==
    /\ pc = "load"
    /\ df' = [cols |-> PairsCols \o <<"product_title", "product_locale">>,
              rows |-> LoadedRows(pairs, catalogue, args.locale)]
    /\ pc' = "split"
    /\ trace' = Append(trace, "load")
    /\ UNCHANGED <<error, args, pairs, catalogue, qsplit, df_train, df_dev,
                   train_samples, evaluator, artifacts, aug, txt>>

\* Lines 93-96. RandomState rejects a seed below 0 (ValueError), once the
\* sizes are validated
SplitQueryIds ==
    /\ pc = "split"
    /\ LET list_query_id == Unique(Column(df.rows, "query_id"))
           sizes == SplitSizes(args.n_dev_queries, Len(list_query_id))
       IN IF sizes.ok
          THEN IF args.random_state < 0
               THEN /\ Fail("ValueError")
                    /\ UNCHANGED <<qsplit, trace>>
               ELSE /\ LET perm == Permutation(args.random_state, Len(list_query_id))
                       IN qsplit' =
                            [train |-> TrainIds(list_query_id, perm, sizes.n_test,
                                                sizes.n_train),
                             dev |-> TestIds(list_query_id, perm, sizes.n_test)]
                    /\ pc' = "build"
                    /\ trace' = Append(trace, "split")
                    /\ UNCHANGED error
          ELSE /\ Fail(sizes.error)
               /\ UNCHANGED <<qsplit, trace>>
    /\ UNCHANGED <<args, pairs, catalogue, df, df_train, df_dev,
                   train_samples, evaluator, artifacts, aug, txt>>

\* Lines 97-100
BuildSplits ==
    /\ pc = "build"
    /\ LET rows == SelectColumns(WithGain(df.rows), SplitCols)
       IN /\ df' = [cols |-> SplitCols, rows |-> rows]
          /\ df_train' = [cols |-> SplitCols, rows |-> RowsOfQueries(rows, qsplit.train)]
          /\ df_dev' = [cols |-> SplitCols, rows |-> RowsOfQueries(rows, qsplit.dev)]
    /\ pc' = IF args.locale = "us" THEN "normalize" ELSE "loaders"
    /\ trace' = Append(trace, "build")
    /\ UNCHANGED <<error, args, pairs, catalogue, qsplit,
                   train_samples, evaluator, artifacts, aug, txt>>

\* Lines 103-104 (locale us)
NormalizeTrain ==
    /\ pc = "normalize"
    /\ df_train' = [df_train EXCEPT !.rows = NormalizedRows(df_train.rows)]
    /\ pc' = "augment"
    /\ trace' = Append(trace, "normalize")
    /\ UNCHANGED <<error, args, pairs, catalogue, df, qsplit, df_dev,
                   train_samples, evaluator, artifacts, aug, txt>>

\* Line 105 (locale us): the call augment_text(df_train), samples defaulted
CallAugment ==
    /\ pc = "augment"
    /\ aug' = [AugIdle EXCEPT !.pc = "select", !.df = df_train, !.samples = DefaultSamples]
    /\ pc' = "in_augment"
    /\ UNCHANGED <<error, args, pairs, catalogue, df, qsplit, df_train, df_dev,
                   train_samples, evaluator, artifacts, trace, txt>>

\* Lines 110-113
PrepareLoaders ==
    /\ pc = "loaders"
    /\ train_samples' = InputExamples(df_train.rows)
    /\ pc' = "evaluator"
    /\ trace' = Append(trace, "loaders")
    /\ UNCHANGED <<error, args, pairs, catalogue, df, qsplit, df_train, df_dev,
                   evaluator, artifacts, aug, txt>>

\* Lines 114-129 (us) and 166-169 (es, jp)
BuildEvaluator ==
    /\ pc = "evaluator"
    /\ evaluator' = IF args.locale = "us"
                    THEN [kind |-> "reranking", samples |-> DevSamples(df_dev.rows)]
                    ELSE [kind |-> "similarity", lists |-> SimilarityLists(df_dev.rows)]
    /\ pc' = "fit"
    /\ trace' = Append(trace, "evaluator")
    /\ UNCHANGED <<error, args, pairs, catalogue, df, qsplit, df_train, df_dev,
                   train_samples, artifacts, aug, txt>>

\* Lines 134-161 (us: output_path is model_save_path + "_tmp") and
\* 174-186 (es, jp: output_path is model_save_path)
FitModel ==
    /\ pc = "fit"
    /\ artifacts' = artifacts \cup {IF args.locale = "us" THEN "tmp" ELSE "save"}
    /\ pc' = "after_fit"
    /\ trace' = Append(trace, "fit")
    /\ UNCHANGED <<error, args, pairs, catalogue, df, qsplit, df_train, df_dev,
                   train_samples, evaluator, aug, txt>>

\* Lines 162-164 (us: model.save, then the evaluator built from test_samples,
\* a name bound nowhere) and 187 (es, jp: evaluator(model))
AfterFit ==
    /\ pc = "after_fit"
    /\ IF args.locale = "us"
       THEN /\ artifacts' = artifacts \cup {"save"}
            /\ trace' = Append(trace, "save")
            /\ Fail("NameError")
       ELSE /\ pc' = "done"
            /\ trace' = Append(trace, "final_eval")
            /\ UNCHANGED <<artifacts, error>>
    /\ UNCHANGED <<args, pairs, catalogue, df, qsplit, df_train, df_dev,
                   train_samples, evaluator, aug, txt>>

----------------------------------------------------------------------------
(* augment_text: augmentation.py lines 14-41 *)

MaxSamples == 2
MaxAugRows == 2

\* The synonym WordNet gives for a word: some other word
Synonym(word) == Str(<<"s","y","n","_">>) \o word

\* syn_aug.augment(text): the text with some of its words replaced by
\* synonyms, or unchanged when no word has one; a text without words is
\* returned as it is
SynonymOutcomes(text) ==
    LET words == SplitSpace(text)
    IN {text} \cup
       {Join([k \in 1..Len(words) |-> IF k = w THEN Synonym(words[k]) ELSE words[k]], Space) :
            w \in 1..Len(words)}

\* The exception leaves augment_text and, when main() is the caller, main()
AugRaise(e) ==
    /\ aug' = [aug EXCEPT !.pc = "raised", !.error = e]
    /\ IF pc = "in_augment" THEN Fail(e) ELSE UNCHANGED <<pc, error>>

\* Lines 15-24: df_n = df[df.target==1], then the indices drawn by
\* np.random.randint(0, len(df), samples)
AugEnter ==
    /\ aug.pc = "select"
    /\ IF "target" \notin Range(aug.df.cols)
       THEN AugRaise("AttributeError")
       ELSE IF Len(aug.df.rows) = 0 /\ aug.samples > 0
       THEN AugRaise("ValueError")
       ELSE /\ aug' = [aug EXCEPT !.pc = "loop",
                          !.df_n = SelectSeq(aug.df.rows, LAMBDA r : r["target"] = 1)]
            /\ UNCHANGED <<pc, error>>
    /\ UNCHANGED <<args, pairs, catalogue, df, qsplit, df_train, df_dev,
                   train_samples, evaluator, artifacts, trace, txt>>

\* Lines 24-32: one iteration of the loop, on the index i drawn for it
AugIterate ==
    /\ aug.pc = "loop"
    /\ Len(aug.picks) < aug.samples
    /\ \E i \in 1..Len(aug.df.rows) :
         \E augmented_text \in SynonymOutcomes(aug.df.rows[i]["query"]) :
            aug' = [aug EXCEPT !.picks = Append(@,
                       [i |-> i, query |-> augmented_text,
                        product_title |-> aug.df.rows[i]["product_title"],
                        esci_label |-> aug.df.rows[i]["esci_label"]])]
    /\ UNCHANGED <<pc, error, args, pairs, catalogue, df, qsplit, df_train, df_dev,
                   train_samples, evaluator, artifacts, trace, txt>>

AugCols == <<"query", "product_title", "esci_label", "gain">>

\* Lines 34-38: the table of the new rows, with their gain
NewRows(picks) ==
    [k \in 1..Len(picks) |->
        [c \in Range(AugCols) |->
            IF c = "gain" THEN aug_esci_label2gain(picks[k].esci_label)
            ELSE IF c = "query" THEN picks[k].query
            ELSE IF c = "product_title" THEN picks[k].product_title
            ELSE picks[k].esci_label]]

AugBuildNew ==
    /\ aug.pc = "loop"
    /\ Len(aug.picks) = aug.samples
    /\ aug' = [aug EXCEPT !.pc = "shuffle", !.new = [cols |-> AugCols, rows |-> NewRows(aug.picks)]]
    /\ UNCHANGED <<pc, error, args, pairs, catalogue, df, qsplit, df_train, df_dev,
                   train_samples, evaluator, artifacts, trace, txt>>

\* Line 39: df = shuffle(df.append(new).reset_index(drop=True)), shuffle being
\* random.shuffle. A pandas without DataFrame.append raises AttributeError.
\* random.shuffle swaps x[i], x[j] for integers i, j, and a DataFrame looks
\* an integer up among its column labels: KeyError, unless the table has at
\* most one row and nothing is swapped. The merged table is bound to the
\* local df only.
AugShuffle ==
    /\ aug.pc = "shuffle"
    /\ \E has_append \in BOOLEAN :
         IF ~has_append THEN AugRaise("AttributeError")
         ELSE IF Len(aug.df.rows) + Len(aug.new.rows) >= 2 THEN AugRaise("KeyError")
         ELSE /\ aug' = [aug EXCEPT !.pc = "return"]
              /\ UNCHANGED <<pc, error>>
    /\ UNCHANGED <<args, pairs, catalogue, df, qsplit, df_train, df_dev,
                   train_samples, evaluator, artifacts, trace, txt>>

\* Line 41: return new. Back in main() (train.py lines 106-107) df_train is
\* indexed by a tuple of four column names, which is no column: KeyError
AugReturn ==
    /\ aug.pc = "return"
    /\ aug' = [aug EXCEPT !.pc = "returned"]
    /\ IF pc = "in_augment" THEN Fail("KeyError") ELSE UNCHANGED <<pc, error>>
    /\ UNCHANGED <<args, pairs, catalogue, df, qsplit, df_train, df_dev,
                   train_samples, evaluator, artifacts, trace, txt>>

----------------------------------------------------------------------------
(* The Text Normalizer, applied once and again *)

NormalizeOnce ==
    /\ txt.stage = "raw"
    /\ txt' = [txt EXCEPT !.stage = "once", !.once = preprocess(txt.input)]
    /\ UNCHANGED <<pc, error, args, pairs, catalogue, df, qsplit, df_train, df_dev,
                   train_samples, evaluator, artifacts, trace, aug>>

NormalizeTwice ==
    /\ txt.stage = "once"
    /\ txt' = [txt EXCEPT !.stage = "twice", !.twice = preprocess(txt.once)]
    /\ UNCHANGED <<pc, error, args, pairs, catalogue, df, qsplit, df_train, df_dev,
                   train_samples, evaluator, artifacts, trace, aug>>

----------------------------------------------------------------------------
(* Inputs *)

QueryTexts == <<Str(<<"1","0"," ","g","a","l"," ","t","a","n","k">>),
                Str(<<"f","t"," ","l","b">>),
                Str(<<"D","r","i","l","l"," ","1","0","i","n",".">>),
                Str(<<"s","q"," ","y","d">>)>>
TitleTexts == <<Str(<<"<","b",">","D","r","i","l","l","<","/","b",">"," ","1","0","i","n">>),
                Str(<<"5"," ","G","a","l">>),
                Str(<<"o","z">>)>>
QueryText(q) == QueryTexts[((q - 1) % Len(QueryTexts)) + 1]
TitleText(p) == TitleTexts[((p - 1) % Len(TitleTexts)) + 1]
LabelAt(k) == Labels[(k % Len(Labels)) + 1]

\* A pairs file of nq queries, perq rows each, the first nus queries of
\* locale us and the others of locale es; row k of a query is about product k
PairsFile(nq, nus, perq) ==
    [i \in 1..(nq * perq) |->
        LET q == ((i - 1) \div perq) + 1
            k == ((i - 1) % perq) + 1
        IN [query_id |-> q, query |-> QueryText(q),
            query_locale |-> IF q <= nus THEN "us" ELSE "es",
            esci_label |-> LabelAt(q + k), product_id |-> k]]

\* A catalogue file: each product is titled in both locales, listed without a
\* title, listed for locale es only, or absent
CatalogueStatus == {"titled", "untitled", "es_only", "absent"}
CatalogueFile(status) ==
    Concat([p \in DOMAIN status |->
        CASE status[p] = "titled" ->
                <<[product_id |-> p, product_title |-> TitleText(p), product_locale |-> "us"],
                  [product_id |-> p, product_title |-> TitleText(p), product_locale |-> "es"]>>
          [] status[p] = "untitled" ->
                <<[product_id |-> p, product_title |-> NaN, product_locale |-> "us"],
                  [product_id |-> p, product_title |-> NaN, product_locale |-> "es"]>>
          [] status[p] = "es_only" ->
                <<[product_id |-> p, product_title |-> TitleText(p), product_locale |-> "es"]>>
          [] status[p] = "absent" -> <<>>])

\* The state main() starts in, its arguments parsed
MainStart(prs, cat, locale, n, seed) ==
    /\ pc = "load"
    /\ error = ""
    /\ args = [locale |-> locale, n_dev_queries |-> n, random_state |-> seed]
    /\ pairs = prs
    /\ catalogue = cat
    /\ df = NoTable
    /\ qsplit = NoSplit
    /\ df_train = NoTable
    /\ df_dev = NoTable
    /\ train_samples = <<>>
    /\ evaluator = NoEvaluator
    /\ artifacts = {}
    /\ trace = <<>>
    /\ aug = AugIdle
    /\ txt = TxtIdle

Init ==
    \E nq \in 0..MaxQueries :
      \E nus \in 0..nq :
        \E status \in [1..RowsPerQuery -> CatalogueStatus] :
          \E locale \in Locales :
            \E n \in (-1)..MaxDevQueries :
              \E seed \in Seeds :
                 MainStart(PairsFile(nq, nus, RowsPerQuery), CatalogueFile(status),
                           locale, n, seed)

Next ==
    \/ LoadData
    \/ SplitQueryIds
    \/ BuildSplits
    \/ NormalizeTrain
    \/ CallAugment
    \/ AugEnter
    \/ PrepareLoaders
    \/ BuildEvaluator
    \/ FitModel
    \/ AfterFit

Spec == Init /\ [][Next]_vars

\* Larger inputs: LargeQueries queries of one locale, one row each, every
\* product titled
LargeQueries == 25
MaxLargeDev == 8

InitLarge ==
    \E nus \in {0, LargeQueries} :
      \E locale \in Locales :
        \E n \in 1..MaxLargeDev :
          \E seed \in Seeds :
             MainStart(PairsFile(LargeQueries, nus, 1), CatalogueFile(<<"titled">>),
                       locale, n, seed)

SpecLarge == InitLarge /\ [][Next]_vars

\* augment_text called on its own
AugRow(k, q) ==
    [c \in Range(SplitCols) \cup {"target"} |->
        CASE c = "query_id" -> q
          [] c = "query" -> preprocess(QueryText(q))
          [] c = "product_title" -> preprocess(TitleText(k))
          [] c = "gain" -> esci_label2gain(LabelAt(k))
          [] c = "esci_label" -> LabelAt(k)
          [] c = "target" -> IF LabelAt(k) = "irrelevant" THEN 0 ELSE 1]
AugRowPool == {AugRow(k, k) : k \in 1..Len(Labels)}
AugTables ==
    UNION {[1..len -> AugRowPool] : len \in 0..MaxAugRows}

InitAug ==
    \E rows \in AugTables :
      \E has_target \in BOOLEAN :
        \E samples \in 0..MaxSamples :
          /\ pc = "caller"
          /\ error = ""
          /\ args = [locale |-> "us", n_dev_queries |-> 0, random_state |-> DefaultRandomState]
          /\ pairs = <<>>
          /\ catalogue = <<>>
          /\ df = NoTable
          /\ qsplit = NoSplit
          /\ df_train = NoTable
          /\ df_dev = NoTable
          /\ train_samples = <<>>
          /\ evaluator = NoEvaluator
          /\ artifacts = {}
          /\ trace = <<>>
          /\ aug = [AugIdle EXCEPT !.pc = "select", !.samples = samples,
                       !.df = IF has_target
                              THEN [cols |-> Append(SplitCols, "target"), rows |-> rows]
                              ELSE [cols |-> SplitCols, rows |-> SelectColumns(rows, SplitCols)]]
          /\ txt = TxtIdle

NextAug ==
    \/ AugEnter
    \/ AugIterate
    \/ AugBuildNew
    \/ AugShuffle
    \/ AugReturn

SpecAug == InitAug /\ [][NextAug]_vars

\* The pipeline and augment_text on its own, together
InitAll == Init \/ InitAug
NextAll == Next \/ NextAug
SpecAll == InitAll /\ [][NextAll]_vars

\* The Text Normalizer alone
MaxParts == 3
Fragments == {Str(<<"g","a","l">>),
              Str(<<"f","t">>),
              Str(<<"y","a","r","d","s">>),
              Str(<<"1","0">>),
              Space,
              Str(<<"i","n",".">>),
              Str(<<"i","n">>),
              Str(<<"<","b",">">>),
              Str(<<"<","/","b",">">>),
              Str(<<"D","r","i","l","l">>),
              Str(<<"_">>),
              <<304>>,     \* capital I with dot above
              <<201>>,     \* capital E with acute
              <<8490>>,    \* Kelvin sign
              <<931>>}     \* capital sigma
RECURSIVE TextsOfParts(_)
TextsOfParts(n) ==
    IF n = 0 THEN {<<>>}
    ELSE LET shorter == TextsOfParts(n - 1)
         IN shorter \cup {t \o f : t \in shorter, f \in Fragments}
ExampleTexts == {Str(<<"<","b",">","D","r","i","l","l","<","/","b",">"," ","1","0","i","n">>),
                 Str(<<"1","0"," ","g","a","l"," ","t","a","n","k">>),
                 Str(<<"g","a","l"," ","g","a","l"," ","g","a","l">>)}
TextInputs == TextsOfParts(MaxParts) \cup ExampleTexts

InitText ==
    \E t \in TextInputs :
          /\ pc = "caller"
          /\ error = ""
          /\ args = [locale |-> "us", n_dev_queries |-> 0, random_state |-> DefaultRandomState]
          /\ pairs = <<>>
          /\ catalogue = <<>>
          /\ df = NoTable
          /\ qsplit = NoSplit
          /\ df_train = NoTable
          /\ df_dev = NoTable
          /\ train_samples = <<>>
          /\ evaluator = NoEvaluator
          /\ artifacts = {}
          /\ trace = <<>>
          /\ aug = AugIdle
          /\ txt = [TxtIdle EXCEPT !.stage = "raw", !.input = t]

NextText ==
    \/ NormalizeOnce
    \/ NormalizeTwice

SpecText == InitText /\ [][NextText]_vars

----------------------------------------------------------------------------
(* Properties *)

QueryIdsOf(table) == {table.rows[i]["query_id"] : i \in DOMAIN table.rows}
Tokens(text) == Range(SplitSpace(text))
Completed(stage) == stage \in Range(trace)

\* The query_ids the inputs leave: those of the pairs of the locale whose
\* product the catalogue lists under that locale with a title
ExpectedQueryIds ==
    {pairs[i]["query_id"] : i \in {j \in DOMAIN pairs :
        /\ pairs[j]["query_locale"] = args.locale
        /\ \E c \in DOMAIN catalogue :
              /\ catalogue[c]["product_id"] = pairs[j]["product_id"]
              /\ catalogue[c]["product_locale"] = args.locale
              /\ catalogue[c]["product_title"] # NaN}}

\* The rows the inputs leave for a set of query_ids
ExpectedRowCount(ids) ==
    Cardinality({<<j, c>> \in (DOMAIN pairs) \X (DOMAIN catalogue) :
        /\ pairs[j]["query_id"] \in ids
        /\ pairs[j]["query_locale"] = args.locale
        /\ catalogue[c]["product_id"] = pairs[j]["product_id"]
        /\ catalogue[c]["product_locale"] = args.locale
        /\ catalogue[c]["product_title"] # NaN})

\* C1: a run for locale us whose data loads and splits fails only in the
\* final evaluation (the unbound test_samples), after every earlier stage,
\* model.fit and model.save included, has completed in order.
C1_FailsOnlyAfterSave ==
    (args.locale = "us" /\ Completed("split") /\ pc = "failed") =>
        /\ error = "NameError"
        /\ "save" \in artifacts
        /\ Completed("normalize")
        /\ Len(trace) >= 2
        /\ trace[Len(trace) - 1] = "fit"
        /\ trace[Len(trace)] = "save"

\* C2: once the splits are built, no query_id has rows in both df_train and
\* df_dev, and together they hold every query_id the filter, the join and
\* the removal of untitled rows leave.
C2_SplitPartitionsQueryIds ==
    Completed("build") =>
        /\ QueryIdsOf(df_train) \cap QueryIdsOf(df_dev) = {}
        /\ QueryIdsOf(df_train) \cup QueryIdsOf(df_dev) = ExpectedQueryIds

C2_Witness ==
    /\ pc = "done"
    /\ Cardinality(QueryIdsOf(df_train)) >= 2
    /\ QueryIdsOf(df_dev) # {}
    /\ ExpectedQueryIds # {pairs[i]["query_id"] : i \in DOMAIN pairs}

\* C3: with D query_ids left and 0 < n_dev_queries < D, df_dev holds the
\* rows of exactly n_dev_queries query_ids and df_train all the rows of the
\* other D - n_dev_queries.
C3_DevHoldsExactlyN ==
    (Completed("build") /\ 0 < args.n_dev_queries
        /\ args.n_dev_queries < Cardinality(ExpectedQueryIds)) =>
        /\ Cardinality(QueryIdsOf(df_dev)) = args.n_dev_queries
        /\ Cardinality(QueryIdsOf(df_train)) =
              Cardinality(ExpectedQueryIds) - args.n_dev_queries
        /\ Len(df_dev.rows) = ExpectedRowCount(QueryIdsOf(df_dev))
        /\ Len(df_train.rows) = ExpectedRowCount(ExpectedQueryIds \ QueryIdsOf(df_dev))

\* C4: preprocess is idempotent: applied to its own output it returns it
\* unchanged.
C4_PreprocessIdempotent ==
    txt.stage = "twice" => txt.twice = txt.once

\* C5: the normalizer's output has no '<' or '>' and nothing of a tag: it is
\* the output for the text with its tags removed (clean_text); and for
\* '<b>Drill</b> 10in' it has the token 'inch'.
C5_TagsRemoved ==
    txt.stage \in {"once", "twice"} =>
        /\ \A i \in DOMAIN txt.once : txt.once[i] \notin {TagOpen, TagClose}
        /\ txt.once = preprocess(clean_text(txt.input))
        /\ txt.input = Str(<<"<","b",">","D","r","i","l","l","<","/","b",">"," ","1","0","i","n">>) => Str(<<"i","n","c","h">>) \in Tokens(txt.once)

\* The abbreviations of the unit table
Abbreviations == {Str(<<"g","a","l">>), Str(<<"g","a","l","s">>), Str(<<"g","a","l","o","n">>),
                  Str(<<"f","t">>), Str(<<"f","t","s">>), Str(<<"f","e","e","t","s">>),
                  Str(<<"f","o","o","t">>), Str(<<"f","o","o","t","s">>), Str(<<"s","q","u","a","r","e","s">>),
                  Str(<<"s","q">>), Str(<<"l","b">>), Str(<<"l","b","s">>),
                  Str(<<"p","o","u","n","d","s">>), Str(<<"o","z">>), Str(<<"o","z","s">>),
                  Str(<<"o","u","n","c","e","s">>), Str(<<"o","u","n","c">>), Str(<<"y","d","s">>),
                  Str(<<"y","d">>), Str(<<"y","a","r","d","s">>)}

\* C6: no token of the normalizer's output is an abbreviation of the unit
\* table; '10 gal tank' yields the token 'gallon' and no token 'gal'.
C6_NoAbbreviationLeft ==
    txt.stage \in {"once", "twice"} =>
        /\ Tokens(txt.once) \cap Abbreviations = {}
        /\ txt.input = Str(<<"1","0"," ","g","a","l"," ","t","a","n","k">>) =>
              Str(<<"g","a","l","l","o","n">>) \in Tokens(txt.once)

C6_Witness ==
    /\ txt.stage = "once"
    /\ \E i \in 1..(Len(txt.input) - 6) :
          SubSeq(txt.input, i, i + 6) = Str(<<"g","a","l"," ","g","a","l">>)
    /\ Str(<<"g","a","l","l","o","n">>) \in Tokens(txt.once)

\* C7: when the call of augment_text by main() has ended, it has returned
\* a table of exactly samples rows, each with a non-empty query and the
\* product_title and esci_label of the row drawn for it.
C7_AugmentReturnsNRows ==
    (Completed("normalize") /\ aug.pc \in {"raised", "returned"}) =>
        /\ aug.pc = "returned"
        /\ Len(aug.new.rows) = aug.samples
        /\ \A k \in DOMAIN aug.new.rows :
              /\ aug.new.rows[k]["query"] # <<>>
              /\ aug.new.rows[k]["product_title"] = aug.df.rows[aug.picks[k].i]["product_title"]
              /\ aug.new.rows[k]["esci_label"] = aug.df.rows[aug.picks[k].i]["esci_label"]

\* The fixed table, in hundredths
TableGain(label) ==
    CASE label = "exact" -> 100 [] label = "substitute" -> 10
      [] label = "complement" -> 1 [] label = "irrelevant" -> 0

GainFollowsLabel(table) ==
    "gain" \in Range(table.cols) =>
        \A i \in DOMAIN table.rows :
            table.rows[i]["gain"] = TableGain(table.rows[i]["esci_label"])

\* C8: every row with a gain (of df, df_train, df_dev and of the new rows of
\* augment_text) has the gain the fixed table gives its esci_label, and the
\* tables of main() and of augment_text are the same function.
C8_GainIsTableOfLabel ==
    /\ GainFollowsLabel(df)
    /\ GainFollowsLabel(df_train)
    /\ GainFollowsLabel(df_dev)
    /\ GainFollowsLabel(aug.new)
    /\ \A l \in Range(Labels) : esci_label2gain(l) = aug_esci_label2gain(l)

C8_Witness ==
    /\ pc = "done"
    /\ df_dev.rows # <<>>
    /\ {df_train.rows[i]["esci_label"] : i \in DOMAIN df_train.rows} = Range(Labels)

\* C9: when n_dev_queries is at least the number of query_ids left, or none
\* is left, the run gets no further than the split, where it fails; nothing
\* is trained and no artifact is written.
C9_BadSplitFailsBeforeTraining ==
    (args.n_dev_queries >= Cardinality(ExpectedQueryIds) \/ ExpectedQueryIds = {}) =>
        /\ pc \in {"load", "split", "failed"}
        /\ pc = "failed" => (trace = <<"load">> /\ error \in {"ValueError", "ZeroDivisionError"})
        /\ artifacts = {}
        /\ train_samples = <<>>

C9_Witness ==
    /\ pc = "failed"
    /\ error = "ValueError"
    /\ ExpectedQueryIds # {}
    /\ args.n_dev_queries >= Cardinality(ExpectedQueryIds)

====
